---- MODULE Spec2Model ----
(***************************************************************************)
(* Shielded-calldata codec of the Fireblocks x Seismic demo:               *)
(*   - AAD construction (constructAAD) and its RLP serialisation,          *)
(*   - transaction decryption (decryptTransactionInput and the historical  *)
(*     decryptors of transaction.ts),                                      *)
(*   - the local AES-GCM helpers (encrypt / decrypt / verifyRoundtrip),    *)
(*   - the demo's main() in its two versions.                              *)
(*                                                                         *)
(* Text is a sequence of one-character strings, bytes are sequences of    *)
(* 0..255, and a JavaScript value is a tagged record (JS values below).   *)
(* Library calls (viem, seismic-viem, WebCrypto) are modelled by what the *)
(* library does on the arguments the repository passes.                   *)
(***************************************************************************)
EXTENDS Integers, Sequences, FiniteSets, TLC

\* ------------------------------------------------------------------------
\* Text and bytes
\* ------------------------------------------------------------------------

HexLower == <<"0","1","2","3","4","5","6","7","8","9","a","b","c","d","e","f">>

HexUpper == <<"0","1","2","3","4","5","6","7","8","9","A","B","C","D","E","F">>

\* The value of each hex digit.
HexValue ==
  [c \in {HexLower[i] : i \in 1..16} \cup {HexUpper[i] : i \in 1..16} |->
     IF \E i \in 1..16 : HexLower[i] = c
       THEN (CHOOSE i \in 1..16 : HexLower[i] = c) - 1
       ELSE (CHOOSE i \in 1..16 : HexUpper[i] = c) - 1]

\* The value of a hex digit, -1 for any other character.
HexDigit(c) == IF c \in DOMAIN HexValue THEN HexValue[c] ELSE -1

IsDecDigit(c) == HexDigit(c) \in 0..9

\* UTF-8 code of the characters the model uses (TextEncoder.encode).
CharCode(c) ==
  IF IsDecDigit(c) THEN 48 + HexDigit(c)
  ELSE IF c = "x" THEN 120
  ELSE IF \E i \in 11..16 : HexLower[i] = c THEN 97 + HexDigit(c) - 10
  ELSE IF \E i \in 11..16 : HexUpper[i] = c THEN 65 + HexDigit(c) - 10
  ELSE 103

Prefix0x == <<"0","x">>

startsWith0x(s) == Len(s) >= 2 /\ s[1] = "0" /\ s[2] = "x"

\* String.prototype.slice(k): the text from 0-based position k on.
SliceFrom(s, k) == IF k >= Len(s) THEN <<>> ELSE SubSeq(s, k + 1, Len(s))

RECURSIVE NatToHexText(_)
\* Number.prototype.toString(16) / BigInt.prototype.toString(16).
NatToHexText(n) ==
  IF n < 16 THEN <<HexLower[n + 1]>>
  ELSE NatToHexText(n \div 16) \o <<HexLower[(n % 16) + 1]>>

RECURSIVE NatToDecText(_)
\* Number.prototype.toString().
NatToDecText(n) ==
  IF n < 10 THEN <<HexLower[n + 1]>>
  ELSE NatToDecText(n \div 10) \o <<HexLower[(n % 10) + 1]>>

RECURSIVE TextToNat(_, _)
\* The number a digit string denotes in the given radix (digits checked by the caller).
TextToNat(s, radix) ==
  IF s = <<>> THEN 0
  ELSE TextToNat(SubSeq(s, 1, Len(s) - 1), radix) * radix + HexDigit(s[Len(s)])

AllHex(s) == \A i \in 1..Len(s) : HexDigit(s[i]) >= 0

AllDec(s) == \A i \in 1..Len(s) : IsDecDigit(s[i])

\* The two hex characters of one byte, lower case, zero padded.
ByteToHexText(b) == <<HexLower[(b \div 16) + 1], HexLower[(b % 16) + 1]>>

RECURSIVE BytesToHexBody(_)
BytesToHexBody(bs) ==
  IF bs = <<>> THEN <<>> ELSE ByteToHexText(bs[1]) \o BytesToHexBody(Tail(bs))

\* bytesToHex: "0x" and two lower-case digits per byte.
bytesToHex(bs) == Prefix0x \o BytesToHexBody(bs)

\* n copies of byte b.
RepBytes(b, n) == [i \in 1..n |-> b]

\* ------------------------------------------------------------------------
\* JavaScript values and results
\* ------------------------------------------------------------------------

\* A value: t is the typeof tag ("undefined", "null", "number", "bigint",
\* "string", "boolean", "nan" for the number NaN); n the number (or 0/1 for a
\* boolean); s the text of a string.
Undef == [t |-> "undefined", n |-> 0, s |-> <<>>]

Null == [t |-> "null", n |-> 0, s |-> <<>>]

NaN == [t |-> "nan", n |-> 0, s |-> <<>>]

Num(k) == [t |-> "number", n |-> k, s |-> <<>>]

Big(k) == [t |-> "bigint", n |-> k, s |-> <<>>]

Str(x) == [t |-> "string", n |-> 0, s |-> x]

Bool(b) == [t |-> "boolean", n |-> IF b THEN 1 ELSE 0, s |-> <<>>]

\* A call's outcome: a value, or a thrown error named by its kind.
Ok(v) == [ok |-> TRUE, v |-> v, err |-> "none"]

Throw(kind) == [ok |-> FALSE, v |-> Undef, err |-> kind]

\* ToBoolean.
Truthy(v) ==
  CASE v.t \in {"undefined", "null", "nan"} -> FALSE
    [] v.t \in {"number", "bigint", "boolean"} -> v.n # 0
    [] OTHER -> v.s # <<>>

\* Number(value), for the values the model uses.
JsNumber(v) ==
  CASE v.t \in {"number", "bigint", "boolean"} -> Num(v.n)
    [] v.t = "null" -> Num(0)
    [] v.t = "string" ->
         IF v.s = <<>> THEN Num(0)
         ELSE IF AllDec(v.s) THEN Num(TextToNat(v.s, 10))
         ELSE IF startsWith0x(v.s) /\ Len(v.s) > 2 /\ AllHex(SliceFrom(v.s, 2))
           THEN Num(TextToNat(SliceFrom(v.s, 2), 16))
         ELSE NaN
    [] OTHER -> NaN

RECURSIVE HexPrefixLen(_)
\* The number of leading hex digits of a text.
HexPrefixLen(s) ==
  IF s = <<>> \/ HexDigit(s[1]) < 0 THEN 0 ELSE 1 + HexPrefixLen(Tail(s))

\* parseInt(text, 16): an optional 0x, then the longest run of hex digits; NaN
\* when there is none.
parseInt16(s) ==
  LET body == IF startsWith0x(s) THEN SliceFrom(s, 2) ELSE s
      k == HexPrefixLen(body)
  IN IF k = 0 THEN NaN ELSE Num(TextToNat(SubSeq(body, 1, k), 16))

\* BigInt(value): a SyntaxError for text that is no integer literal, a
\* TypeError for undefined and null, a RangeError for NaN.
JsBigInt(v) ==
  CASE v.t \in {"number", "bigint", "boolean"} -> Ok(Big(v.n))
    [] v.t = "nan" -> Throw("RangeError")
    [] v.t = "string" ->
         IF v.s = <<>> THEN Ok(Big(0))
         ELSE IF AllDec(v.s) THEN Ok(Big(TextToNat(v.s, 10)))
         ELSE IF startsWith0x(v.s) /\ Len(v.s) > 2 /\ AllHex(SliceFrom(v.s, 2))
           THEN Ok(Big(TextToNat(SliceFrom(v.s, 2), 16)))
         ELSE Throw("SyntaxError")
    [] OTHER -> Throw("TypeError")

\* value.toString(16): the radix is ignored by a string; undefined and null
\* have no toString.
JsToString16(v) ==
  CASE v.t \in {"number", "bigint"} -> Ok(Str(NatToHexText(v.n)))
    [] v.t = "string" -> Ok(v)
    [] v.t = "boolean" -> Ok(Str(IF v.n = 1 THEN <<"t">> ELSE <<"f">>))
    [] v.t = "nan" -> Ok(Str(<<"N">>))
    [] OTHER -> Throw("TypeError")

\* ------------------------------------------------------------------------
\* viem: toHex, hexToBytes, toRlp
\* ------------------------------------------------------------------------

RECURSIVE Utf8(_)
Utf8(s) == IF s = <<>> THEN <<>> ELSE <<CharCode(s[1])>> \o Utf8(Tail(s))

\* viem toHex: numberToHex for number and bigint ("0x" + toString(16), so 0
\* gives "0x0"), stringToHex (the UTF-8 bytes of the text) for a string,
\* boolToHex for a boolean, bytesToHex(value) otherwise, which throws on
\* undefined and null.
toHex(v) ==
  CASE v.t \in {"number", "bigint"} -> Ok(Str(Prefix0x \o NatToHexText(v.n)))
    [] v.t = "string" -> Ok(Str(bytesToHex(Utf8(v.s))))
    [] v.t = "boolean" -> Ok(Str(Prefix0x \o <<HexLower[v.n + 1]>>))
    [] v.t = "nan" -> Throw("RangeError")
    [] OTHER -> Throw("TypeError")

RECURSIVE PairsToBytes(_)
PairsToBytes(s) ==
  IF s = <<>> THEN <<>>
  ELSE <<16 * HexDigit(s[1]) + HexDigit(s[2])>> \o PairsToBytes(SliceFrom(s, 2))

\* viem hexToBytes: drops the first two characters, pads an odd digit count
\* with a leading 0, throws on a character that is no hex digit.
viemHexToBytes(s) ==
  LET body == SliceFrom(s, 2)
      even == IF Len(body) % 2 = 1 THEN <<"0">> \o body ELSE body
  IN IF AllHex(even) THEN [ok |-> TRUE, bytes |-> PairsToBytes(even), err |-> "none"]
     ELSE [ok |-> FALSE, bytes |-> <<>>, err |-> "InvalidHex"]

RECURSIVE BigEndian(_)
\* The minimal big-endian bytes of a positive length.
BigEndian(n) == IF n < 256 THEN <<n>> ELSE BigEndian(n \div 256) \o <<n % 256>>

\* RLP of one byte string (viem getEncodableBytes).
RlpItem(bs) ==
  IF Len(bs) = 1 /\ bs[1] < 128 THEN bs
  ELSE IF Len(bs) <= 55 THEN <<128 + Len(bs)>> \o bs
  ELSE <<183 + Len(BigEndian(Len(bs)))>> \o BigEndian(Len(bs)) \o bs

RECURSIVE Concat(_)
Concat(seqs) == IF seqs = <<>> THEN <<>> ELSE seqs[1] \o Concat(Tail(seqs))

\* RLP of a list of already encoded items (viem getEncodableList).
RlpList(items) ==
  LET body == Concat(items)
  IN IF Len(body) <= 55 THEN <<192 + Len(body)>> \o body
     ELSE <<247 + Len(BigEndian(Len(body)))>> \o BigEndian(Len(body)) \o body

\* What toRlp makes of one element of the list: a string goes through
\* hexToBytes; anything else is taken for a byte array and its missing length
\* throws.
RlpField(v) ==
  IF v.t = "string" THEN viemHexToBytes(v.s)
  ELSE [ok |-> FALSE, bytes |-> <<>>, err |-> "TypeError"]

\* toRlp on the elements as converted: the first failure is thrown, else the
\* list of the encoded items.
RlpOfConverted(conv) ==
  IF \E i \in 1..Len(conv) : ~conv[i].ok
    THEN [ok |-> FALSE, bytes |-> <<>>,
          err |-> conv[CHOOSE i \in 1..Len(conv) :
                         ~conv[i].ok /\ \A j \in 1..(i - 1) : conv[j].ok].err]
    ELSE [ok |-> TRUE,
          bytes |-> RlpList([i \in 1..Len(conv) |-> RlpItem(conv[i].bytes)]),
          err |-> "none"]

\* toRlp(fields, "bytes").
toRlp(fields) == RlpOfConverted([i \in 1..Len(fields) |-> RlpField(fields[i])])

\* ------------------------------------------------------------------------
\* transaction-decryption.ts: constructAAD
\* ------------------------------------------------------------------------

\* The literals the code compares with and substitutes.
Text0x == Str(Prefix0x)

Text0x0 == Str(<<"0","x","0">>)

Text0x00 == Str(<<"0","x","0","0">>)

Text0x01 == Str(<<"0","x","0","1">>)

\* ensureHexPrefix: "0x" for a missing or empty value, else the value with a
\* 0x prefix added when it has none.
ensureHexPrefix(v) ==
  IF ~Truthy(v) THEN Text0x
  ELSE IF startsWith0x(v.s) THEN v ELSE Str(Prefix0x \o v.s)

\* normalizeNumeric: parseInt(value, 16) for a 0x string, Number(value) otherwise.
normalizeNumeric(v) ==
  IF v.t = "string" /\ startsWith0x(v.s) THEN parseInt16(v.s) ELSE JsNumber(v)

\* BigInt(`0x${txt}`) of the text toString(16) gave, or what toString threw.
BigIntOf0xText(txt) ==
  IF txt.ok THEN JsBigInt(Str(Prefix0x \o txt.v.s)) ELSE txt

\* BigInt(<0x string> ? tx.expiresAtBlock : `0x${tx.expiresAtBlock.toString(16)}`).
expiresAtBlockValue(tx) ==
  IF tx.expiresAtBlock.t = "string" /\ startsWith0x(tx.expiresAtBlock.s)
    THEN JsBigInt(tx.expiresAtBlock)
    ELSE BigIntOf0xText(JsToString16(tx.expiresAtBlock))

\* tx.value || 0.
valueOrZero(tx) == IF Truthy(tx.value) THEN tx.value ELSE Num(0)

\* cond ? "0x" : toHex(value), the condition being that the value is zero; an
\* error thrown on the way to the value is passed on.
ZeroOrToHex(value) ==
  IF ~value.ok THEN value
  ELSE IF value.v.t \in {"number", "bigint"} /\ value.v.n = 0 THEN Ok(Text0x)
  ELSE toHex(value.v)

\* The element for the nonce: "0x" when nonceValue === 0, else toHex(nonceValue).
nonceField(tx) == ZeroOrToHex(Ok(normalizeNumeric(tx.nonce)))

\* valueField with nonceValue where the value belongs.
valueField_copiesNonce(tx) == ZeroOrToHex(Ok(normalizeNumeric(tx.nonce)))

\* The element for the value: "0x" when BigInt(tx.value || 0) === 0n, else its toHex.
valueField(tx) == ZeroOrToHex(JsBigInt(valueOrZero(tx)))

\* encryptionNonce === "0x00" || encryptionNonce === "0x0" ? "0x" : encryptionNonce.
ZeroTextAsEmpty(encryptionNonce) ==
  IF encryptionNonce = Text0x00 \/ encryptionNonce = Text0x0
    THEN Text0x ELSE encryptionNonce

\* The element for the encryption nonce.
encryptionNonceField(tx) == ZeroTextAsEmpty(ensureHexPrefix(tx.encryptionNonce))

\* The element for the message version: the value itself unless it is one of
\* the three zero texts.
messageVersionField(tx) ==
  IF tx.messageVersion = Text0x0 \/ tx.messageVersion = Text0x00
       \/ tx.messageVersion = Text0x
    THEN Text0x ELSE tx.messageVersion

\* toHex of a value, or the error thrown on the way to it.
ToHexOf(value) == IF value.ok THEN toHex(value.v) ELSE value

\* The element for the expiry block.
expiresAtBlockField(tx) == ToHexOf(expiresAtBlockValue(tx))

\* fieldOutcomes with the recipient left out of the array when it is absent.
fieldOutcomes_dropsAbsentTo(tx) ==
  IF tx.to.t \in {"null", "undefined"}
    THEN << Ok(tx.from), toHex(tx.chainId), nonceField(tx), valueField(tx),
            Ok(ensureHexPrefix(tx.encryptionPubkey)),
            Ok(encryptionNonceField(tx)), Ok(messageVersionField(tx)),
            Ok(tx.recentBlockHash), expiresAtBlockField(tx),
            Ok(IF Truthy(tx.signedRead) THEN Text0x01 ELSE Text0x) >>
    ELSE << Ok(tx.from), toHex(tx.chainId), nonceField(tx), Ok(tx.to),
            valueField(tx), Ok(ensureHexPrefix(tx.encryptionPubkey)),
            Ok(encryptionNonceField(tx)), Ok(messageVersionField(tx)),
            Ok(tx.recentBlockHash), expiresAtBlockField(tx),
            Ok(IF Truthy(tx.signedRead) THEN Text0x01 ELSE Text0x) >>

\* The 11 elements of the fields array, each the outcome of its expression.
fieldOutcomes(tx) ==
  << Ok(tx.from),
     toHex(tx.chainId),
     nonceField(tx),
     Ok(IF tx.to.t \in {"null", "undefined"} THEN Text0x ELSE tx.to),
     valueField(tx),
     Ok(ensureHexPrefix(tx.encryptionPubkey)),
     Ok(encryptionNonceField(tx)),
     Ok(messageVersionField(tx)),
     Ok(tx.recentBlockHash),
     expiresAtBlockField(tx),
     Ok(IF Truthy(tx.signedRead) THEN Text0x01 ELSE Text0x) >>

\* The result of constructAAD for the array and what toRlp made of it.
AadResult(fields, rlp) ==
  [ok |-> rlp.ok, bytes |-> rlp.bytes, fields |-> fields, err |-> rlp.err]

AadOfFields(fields) == AadResult(fields, toRlp(fields))

\* The first error among the elements ends the call; else the array goes to
\* toRlp.
AadOfOutcomes(outs) ==
  IF \E i \in 1..Len(outs) : ~outs[i].ok
    THEN [ok |-> FALSE, bytes |-> <<>>, fields |-> <<>>,
          err |-> outs[CHOOSE i \in 1..Len(outs) : ~outs[i].ok].err]
    ELSE AadOfFields([i \in 1..Len(outs) |-> outs[i].v])

\* constructAAD with the signedRead flag taken from whether the record
\* carries calldata.
constructAAD_readsInput(tx) ==
  AadOfOutcomes(fieldOutcomes([tx EXCEPT !.signedRead = Bool(tx.input.body # <<>>)]))

\* constructAAD: the fields array, then toRlp(fields, "bytes"). An expression
\* that throws ends the call before anything is serialised. fields is the
\* array handed to toRlp (empty when the call ended before).
constructAAD(tx) == AadOfOutcomes(fieldOutcomes(tx))

\* ------------------------------------------------------------------------
\* seismic-viem: generateAesKey and AesGcmCrypto, as the repository uses them
\* ------------------------------------------------------------------------

RECURSIVE PowMod23(_, _)
\* b^e in the multiplicative group modulo 23.
PowMod23(b, e) == IF e = 0 THEN 1 ELSE (b * PowMod23(b, e - 1)) % 23

\* Secret scalars: the exponents of the subgroup of prime order 11 that 2
\* generates modulo 23 (the stand-in for secp256k1 scalars).
Scalars == 1..10

\* The public key of a secret scalar.
publicKeyOf(sk) == PowMod23(2, sk)

\* generateAesKey({privateKey, networkPublicKey}): the ECDH shared point, then
\* HKDF-SHA256 with the info "aes-gcm key"; the HKDF output is the term
\* [hkdf |-> point] (no two points give the same key).
generateAesKey(privateKey, networkPublicKey) ==
  [hkdf |-> PowMod23(networkPublicKey, privateKey)]

RECURSIVE SumBytes(_)
SumBytes(bs) == IF bs = <<>> THEN 0 ELSE bs[1] + SumBytes(Tail(bs))

\* The number a key seeds its stream with: the HKDF output, the bytes of an
\* imported raw key, or a scalar used as a key directly.
KeyNumber(key) ==
  IF "hkdf" \in DOMAIN key THEN key.hkdf
  ELSE IF "raw" \in DOMAIN key THEN SumBytes(key.raw)
  ELSE key.scalar

\* Byte i of the AES-CTR key stream of (key, nonce).
KeyStream(key, nonce, i) ==
  (KeyNumber(key) * 31 + SumBytes(nonce) * 7 + i * 13 + 1) % 256

\* The GCM tag of (key, nonce, aad, body): the term itself; flip counts the
\* bits changed after sealing.
GcmTag(key, nonce, aad, body) ==
  [k |-> key, n |-> nonce, a |-> aad, c |-> body, flip |-> 0]

\* AES-256-GCM seal: the masked plaintext and its tag.
AesGcmSeal(key, nonce, plaintext, aad) ==
  LET body == [i \in 1..Len(plaintext) |->
                 (plaintext[i] + KeyStream(key, nonce, i)) % 256]
  IN [body |-> body, tag |-> GcmTag(key, nonce, aad, body)]

\* AES-256-GCM open: the tag is recomputed and compared before anything is
\* unmasked; a mismatch is the one authentication error.
AesGcmOpen(key, nonce, ciphertext, aad) ==
  IF ciphertext.tag = GcmTag(key, nonce, aad, ciphertext.body)
    THEN [ok |-> TRUE,
          bytes |-> [i \in 1..Len(ciphertext.body) |->
                       (ciphertext.body[i] + 256 - KeyStream(key, nonce, i)) % 256],
          err |-> "none"]
    ELSE [ok |-> FALSE, bytes |-> <<>>, err |-> "AuthenticationError"]

\* ------------------------------------------------------------------------
\* transaction-decryption.ts: decryptTransactionInput
\* ------------------------------------------------------------------------

\* The network's TEE public key (the enclave's secret scalar is 7).
NETWORK_TEE_PUBLIC_KEY == publicKeyOf(7)

\* The open with the nonce as converted to bytes, or the conversion's error.
OpenWithNonce(aesKey, input, nonce, aad) ==
  IF ~nonce.ok THEN [ok |-> FALSE, bytes |-> <<>>, err |-> nonce.err]
  ELSE AesGcmOpen(aesKey, nonce.bytes, input, aad)

\* AesGcmCrypto.decrypt(tx.input, tx.encryptionNonce, aad): the nonce text is
\* turned into bytes, then the AEAD open.
cryptoDecrypt(aesKey, input, encryptionNonce, aad) ==
  OpenWithNonce(aesKey, input, RlpField(encryptionNonce), aad)

\* What decryptTransactionInput returns or throws after the open.
PlaintextOutcome(plaintext) ==
  IF ~plaintext.ok
    THEN [ok |-> FALSE, v |-> Undef, err |-> plaintext.err,
          opens |-> IF plaintext.err = "AuthenticationError" THEN 1 ELSE 0]
  ELSE [ok |-> TRUE, v |-> Str(bytesToHex(plaintext.bytes)), err |-> "none",
        opens |-> 1]

\* The steps of decryptTransactionInput after the AAD was built.
DecryptWithAad(aesKey, aad, tx) ==
  IF ~aad.ok THEN [ok |-> FALSE, v |-> Undef, err |-> aad.err, opens |-> 0]
  ELSE PlaintextOutcome(cryptoDecrypt(aesKey, tx.input, tx.encryptionNonce,
                                      aad.bytes))

\* PlaintextOutcome with the failure caught and the raw input returned.
PlaintextOutcome_swallows(plaintext, input) ==
  IF ~plaintext.ok
    THEN [ok |-> TRUE, v |-> Str(bytesToHex(input.body)), err |-> "none",
          opens |-> 1]
  ELSE [ok |-> TRUE, v |-> Str(bytesToHex(plaintext.bytes)), err |-> "none",
        opens |-> 1]

DecryptWithAad_swallows(aesKey, aad, tx) ==
  IF ~aad.ok THEN [ok |-> FALSE, v |-> Undef, err |-> aad.err, opens |-> 0]
  ELSE PlaintextOutcome_swallows(
         cryptoDecrypt(aesKey, tx.input, tx.encryptionNonce, aad.bytes),
         tx.input)

\* decryptTransactionInput with the failure of the open caught and the raw
\* input returned in its place.
decryptTransactionInput_swallows(encryptionSk, tx) ==
  DecryptWithAad_swallows(generateAesKey(encryptionSk, NETWORK_TEE_PUBLIC_KEY),
                          constructAAD(tx), tx)

\* decryptTransactionInput(encryptionSk, tx): derive the key, build the AAD,
\* open once; whatever is thrown on the way leaves the function as it is.
\* opens counts the AEAD opens the call made.
decryptTransactionInput(encryptionSk, tx) ==
  DecryptWithAad(generateAesKey(encryptionSk, NETWORK_TEE_PUBLIC_KEY),
                 constructAAD(tx), tx)

\* ------------------------------------------------------------------------
\* crypto/encryption.ts and crypto/key-derivation.ts
\* ------------------------------------------------------------------------

IV_BYTES == 12

\* A Uint8Array as a value.
Bytes(bs) == [t |-> "bytes", n |-> 0, s |-> bs]

\* What a Uint8Array stores for parseInt's result: 0 for NaN.
ByteOfParsed(v) == IF v.t = "nan" THEN 0 ELSE v.n % 256

\* The bytes of hex text without prefix: floor(length / 2) entries.
BytesOfClean(clean) ==
  [i \in 1..(Len(clean) \div 2) |->
     ByteOfParsed(parseInt16(SubSeq(clean, 2 * i - 1, 2 * i)))]

\* hexToBytes of the crypto files: an optional 0x is dropped, the array has
\* floor(length / 2) entries, and a pair parseInt cannot read stores 0.
hexToBytes(hex) ==
  BytesOfClean(IF startsWith0x(hex) THEN SliceFrom(hex, 2) ELSE hex)

\* crypto.subtle.importKey("raw") takes 16, 24 or 32 bytes.
ImportRaw(keyBytes) ==
  IF Len(keyBytes) \in {16, 24, 32}
    THEN [ok |-> TRUE, key |-> [raw |-> keyBytes], err |-> "none"]
  ELSE [ok |-> FALSE, key |-> [raw |-> <<>>], err |-> "DataError"]

\* importAesKey(keyHex).
importAesKey(keyHex) == ImportRaw(hexToBytes(keyHex.s))

NoPayload == [ciphertext |-> [hex |-> <<>>, tag |-> GcmTag([raw |-> <<>>], <<>>, <<>>, <<>>)],
              iv |-> <<>>]

\* The EncryptedPayload of a sealed buffer: the hex of the sealed bytes (the
\* tag stays the term it is) and the hex of the iv.
PayloadOf(ciphertextBuf, iv) ==
  [ok |-> TRUE,
   payload |-> [ciphertext |-> [hex |-> bytesToHex(ciphertextBuf.body),
                                tag |-> ciphertextBuf.tag],
                iv |-> bytesToHex(iv)],
   err |-> "none"]

\* encrypt after the key import: the import's error, or the payload.
EncryptWith(key, data, iv) ==
  IF ~key.ok THEN [ok |-> FALSE, payload |-> NoPayload, err |-> key.err]
  ELSE PayloadOf(AesGcmSeal(key.key, iv, data, <<>>), iv)

\* encrypt(keyHex, plaintext) with the iv getRandomValues drew.
encrypt(keyHex, plaintext, iv) ==
  EncryptWith(importAesKey(keyHex),
              IF plaintext.t = "string" THEN hexToBytes(plaintext.s)
              ELSE plaintext.s,
              iv)

\* The hex of the opened bytes, or the error of the open.
OpenedHex(plaintextBuf) ==
  IF ~plaintextBuf.ok THEN Throw(plaintextBuf.err)
  ELSE Ok(Str(bytesToHex(plaintextBuf.bytes)))

\* decrypt after the key import.
DecryptWith(key, iv, ciphertext) ==
  IF ~key.ok THEN Throw(key.err)
  ELSE OpenedHex(AesGcmOpen(key.key, iv, ciphertext, <<>>))

\* decrypt(keyHex, payload): the hex of the opened bytes.
decrypt(keyHex, payload) ==
  DecryptWith(importAesKey(keyHex), hexToBytes(payload.iv),
              [body |-> hexToBytes(payload.ciphertext.hex),
               tag |-> payload.ciphertext.tag])

\* decrypted === original.
SameText(decrypted, original) ==
  IF ~decrypted.ok THEN Throw(decrypted.err)
  ELSE Ok(Bool(decrypted.v = original))

\* verifyRoundtrip after encrypt.
VerifyEncrypted(keyHex, original, encrypted) ==
  IF ~encrypted.ok THEN Throw(encrypted.err)
  ELSE SameText(decrypt(keyHex, encrypted.payload), original)

\* verifyRoundtrip(keyHex, original): decrypted === original.
verifyRoundtrip(keyHex, original, iv) ==
  VerifyEncrypted(keyHex, original, encrypt(keyHex, original, iv))

\* SHA-256 as a stand-in that tells apart all inputs of up to two bytes: the
\* length, the bytes, and zeros up to 32 bytes.
Sha256(bs) ==
  [i \in 1..32 |-> IF i = 1 THEN Len(bs)
                   ELSE IF i - 1 <= Len(bs) /\ i <= 3 THEN bs[i - 1]
                   ELSE 0]

\* deriveKeyFromSignature hashing what a parser of lower-case digits alone
\* makes of fullSig: a pair with an upper-case digit reads as 0.
deriveKeyFromSignature_lowerOnly(fullSig) ==
  Str(bytesToHex(Sha256(hexToBytes(
    [i \in 1..Len(fullSig) |->
       IF fullSig[i] \in {"A", "B", "C", "D", "E", "F"} THEN "g" ELSE fullSig[i]]))))

\* deriveKeyFromSignature(signature): the hex of SHA-256 of the bytes of fullSig.
deriveKeyFromSignature(fullSig) == Str(bytesToHex(Sha256(hexToBytes(fullSig))))

\* The same four functions as the later key-derivation file has them, on
\* viem's hexToBytes (which throws on text that is no hex).
ImportRaw2(keyBytes) ==
  IF ~keyBytes.ok THEN [ok |-> FALSE, key |-> [raw |-> <<>>], err |-> keyBytes.err]
  ELSE ImportRaw(keyBytes.bytes)

importAesKey2(keyHex) == ImportRaw2(viemHexToBytes(keyHex.s))

EncryptWith2(key, plaintextBytes, iv) ==
  IF ~key.ok THEN [ok |-> FALSE, payload |-> NoPayload, err |-> key.err]
  ELSE IF ~plaintextBytes.ok
    THEN [ok |-> FALSE, payload |-> NoPayload, err |-> plaintextBytes.err]
  ELSE PayloadOf(AesGcmSeal(key.key, iv, plaintextBytes.bytes, <<>>), iv)

encrypt2(keyHex, plaintext, iv) ==
  EncryptWith2(importAesKey2(keyHex), viemHexToBytes(plaintext.s), iv)

DecryptWith2(key, ciphertextBytes, ivBytes, tag) ==
  IF ~key.ok THEN Throw(key.err)
  ELSE IF ~ciphertextBytes.ok THEN Throw(ciphertextBytes.err)
  ELSE IF ~ivBytes.ok THEN Throw(ivBytes.err)
  ELSE OpenedHex(AesGcmOpen(key.key, ivBytes.bytes,
                            [body |-> ciphertextBytes.bytes, tag |-> tag], <<>>))

decrypt2(keyHex, encrypted) ==
  DecryptWith2(importAesKey2(keyHex), viemHexToBytes(encrypted.ciphertext.hex),
               viemHexToBytes(encrypted.iv), encrypted.ciphertext.tag)

KeyOfSigBytes(sigBytes) ==
  IF ~sigBytes.ok THEN Throw(sigBytes.err)
  ELSE Ok(Str(bytesToHex(Sha256(sigBytes.bytes))))

deriveKeyFromSignature2(fullSig) == KeyOfSigBytes(viemHexToBytes(fullSig))

\* String.prototype.toLowerCase on hex text.
toLowerCase(s) ==
  [i \in 1..Len(s) |-> IF HexDigit(s[i]) >= 10 THEN HexLower[HexDigit(s[i]) + 1]
                       ELSE s[i]]

\* ------------------------------------------------------------------------
\* transaction.ts: decryptHistoricalTransaction (both versions)
\* ------------------------------------------------------------------------

\* Bytes an AES-GCM tag adds to a ciphertext.
TagBytes == 16

\* The 4-byte selector of transfer(address,uint256), a9059cbb.
TransferSelector == <<169, 5, 156, 187>>

\* The nonce widths extractAndDecryptCalldata tries for every chunk.
nonceStrategies == <<12, 8, 4>>

\* The bytes of the hex text of a transaction input: the body, then the tag
\* (opaque bytes; zeros stand in for them where a window is cut).
InputBytes(input) == input.body \o RepBytes(0, TagBytes)

\* A window of the input taken as a ciphertext: it carries the input's tag
\* only when it is the whole tail of the input.
ChunkCiphertext(input, from, to) ==
  LET wire == InputBytes(input)
      body == IF to - TagBytes < from THEN <<>>
              ELSE SubSeq(wire, from, to - TagBytes)
  IN [body |-> body,
      tag |-> IF to = Len(wire) /\ body = input.body THEN input.tag
              ELSE [input.tag EXCEPT !.flip = 2]]

\* A 12-byte nonce holding a small number.
NonceOfNumber(n) == RepBytes(0, 11) \o <<n % 256>>

\* The result object of the historical decryptors, with the opens they made
\* and the AES keys they put into request bodies.
HistoricalResult(success, encrypted, decrypted, attempts, rpcKeys) ==
  [returned |-> TRUE, success |-> success, encryptedCalldata |-> encrypted,
   decryptedCalldata |-> decrypted, attempts |-> attempts, rpcKeys |-> rpcKeys]

\* A result with one more attempt before its own.
PrependAttempt(first, rest) ==
  [rest EXCEPT !.attempts = <<first>> \o rest.attempts]

\* One attempt of the search loop: offset (in bytes) and nonce width.
AttemptWith(aesKey, nonce, ct) ==
  [key |-> [scalar |-> aesKey], nonce |-> nonce,
   out |-> AesGcmOpen([scalar |-> aesKey], nonce, ct, <<>>)]

ChunkAttempt(input, originalLength, aesKey, offset, nonceBytes) ==
  AttemptWith(aesKey,
              SubSeq(InputBytes(input), offset + 1, offset + nonceBytes),
              ChunkCiphertext(input, offset + nonceBytes + 1,
                              offset + originalLength + TagBytes))

\* How many chunk offsets the loop visits.
OffsetCount(inputLength, expectedEncryptedSize) ==
  IF inputLength > expectedEncryptedSize
    THEN inputLength - expectedEncryptedSize ELSE 0

\* The attempts of the loop in order, had none of them been accepted.
AllAttempts(seismicTxInput, originalLength, aesKey, count) ==
  [i \in 1..count |->
     ChunkAttempt(seismicTxInput, originalLength, aesKey,
                  (i - 1) \div Len(nonceStrategies),
                  nonceStrategies[((i - 1) % Len(nonceStrategies)) + 1])]

\* A decrypted chunk is returned when it is the original calldata or starts
\* with the transfer selector.
Accepted(out, originalCalldata) ==
  /\ out.ok
  /\ \/ out.bytes = originalCalldata
     \/ /\ Len(out.bytes) >= Len(TransferSelector)
        /\ SubSeq(out.bytes, 1, Len(TransferSelector)) = TransferSelector

\* The result once the loop stops at attempt first (0: it ran to its end).
ExtractResult(encrypted, attempts, first) ==
  IF first = 0 THEN HistoricalResult(FALSE, encrypted, Undef, attempts, {})
  ELSE HistoricalResult(TRUE, encrypted,
                        Str(bytesToHex(attempts[first].out.bytes)),
                        SubSeq(attempts, 1, first), {})

FirstAccepted(attempts, originalCalldata) ==
  IF \A i \in 1..Len(attempts) : ~Accepted(attempts[i].out, originalCalldata)
    THEN 0
  ELSE CHOOSE i \in 1..Len(attempts) :
         /\ Accepted(attempts[i].out, originalCalldata)
         /\ \A j \in 1..(i - 1) : ~Accepted(attempts[j].out, originalCalldata)

ExtractFrom(encrypted, attempts, originalCalldata) ==
  ExtractResult(encrypted, attempts, FirstAccepted(attempts, originalCalldata))

\* extractAndDecryptCalldata: every chunk of the expected size, every nonce
\* width; each failure is swallowed and the next one tried.
extractAndDecryptCalldata(seismicTxInput, originalCalldata, aesKey) ==
  ExtractFrom(InputBytes(seismicTxInput),
              AllAttempts(seismicTxInput, Len(originalCalldata), aesKey,
                          OffsetCount(Len(InputBytes(seismicTxInput)),
                                      Len(originalCalldata) + TagBytes)
                            * Len(nonceStrategies)),
              originalCalldata)

\* The first version after client.decrypt: its plaintext, or the search.
AfterClientDecrypt(first, encryptionSk, tx, originalPlaintextCalldata) ==
  IF first.out.ok
    THEN HistoricalResult(TRUE, InputBytes(tx.input),
                          Str(bytesToHex(first.out.bytes)), <<first>>, {})
  ELSE PrependAttempt(first,
                      extractAndDecryptCalldata(tx.input, originalPlaintextCalldata,
                                                encryptionSk))

\* client.decrypt(seismicTxInput, metadata) with the clock's nonce.
ClientDecrypt(key, nonce, input) ==
  [key |-> key, nonce |-> nonce, out |-> AesGcmOpen(key, nonce, input, <<>>)]

\* decryptHistoricalTransaction, first version: the client's decrypt with a
\* nonce taken from the clock, and the search when that fails.
decryptHistoricalTransactionFirst(encryptionSk, tx, originalPlaintextCalldata, now) ==
  AfterClientDecrypt(ClientDecrypt(generateAesKey(encryptionSk, NETWORK_TEE_PUBLIC_KEY),
                                   NonceOfNumber(now), tx.input),
                     encryptionSk, tx, originalPlaintextCalldata)

\* The node's answer to the eth_call: the open without AAD when the nonce has
\* its 12 bytes, an error otherwise.
PrecompileCall(aesKey, bytes, ciphertext) ==
  [key |-> aesKey, nonce |-> IF bytes.ok THEN bytes.bytes ELSE <<>>,
   out |-> IF bytes.ok /\ Len(bytes.bytes) = 12
           THEN AesGcmOpen(aesKey, bytes.bytes, ciphertext, <<>>)
           ELSE [ok |-> FALSE, bytes |-> <<>>, err |-> "RpcError"]]

\* callAesPrecompile: the key, the nonce and the ciphertext go into the body
\* of an eth_call to the node, which opens without AAD; an error answer is
\* thrown.
callAesPrecompile(aesKey, nonce, ciphertext) ==
  PrecompileCall(aesKey, viemHexToBytes(nonce.s), ciphertext)

\* The later version after the precompile call: every failure is caught and
\* becomes {success: false}.
AfterPrecompile(call0, actualAesKey, tx, originalPlaintextCalldata) ==
  IF ~call0.out.ok
    THEN HistoricalResult(FALSE, <<>>, Undef, <<call0>>, {actualAesKey})
  ELSE HistoricalResult(bytesToHex(call0.out.bytes)
                          = bytesToHex(originalPlaintextCalldata),
                        InputBytes(tx.input),
                        Str(bytesToHex(call0.out.bytes)),
                        <<call0>>, {actualAesKey})

HistoricalWithKey(actualAesKey, tx, originalPlaintextCalldata) ==
  AfterPrecompile(callAesPrecompile(actualAesKey, tx.encryptionNonce, tx.input),
                  actualAesKey, tx, originalPlaintextCalldata)

\* decryptHistoricalTransaction, later version: one precompile call.
decryptHistoricalTransaction(encryptionSk, tx, originalPlaintextCalldata) ==
  IF ~Truthy(tx.encryptionNonce) \/ tx.encryptionNonce.t # "string"
    THEN HistoricalResult(FALSE, <<>>, Undef, <<>>, {})
  ELSE HistoricalWithKey(generateAesKey(encryptionSk, NETWORK_TEE_PUBLIC_KEY),
                         tx, originalPlaintextCalldata)

\* ------------------------------------------------------------------------
\* The transaction record a client fetches, and what the network sealed
\* ------------------------------------------------------------------------

VARIABLES
  tx,        \* the transaction object handed to the decryption functions
  sealed,    \* what the sender sealed: the record, key, nonce, aad, plaintext, ciphertext
  sk,        \* the encryptionSk the caller decrypts with
  edits,     \* how many fields of tx differ from the record as sealed
  aadOut,    \* the constructAAD(tx) call and its outcome
  call,      \* the decryptTransactionInput(sk, tx) call and its outcome
  hist,      \* the decryptHistoricalTransaction call and its outcome
  payload,   \* the last encrypt(key, plaintext) call and what it returned
  opened,    \* the decrypt(key, payload) call on that payload and its outcome
  verdict,   \* the last verifyRoundtrip(key, original) call and its outcome
  demo,      \* a run of the demo: its position and what it has done
  calls,     \* the decryptTransactionInput calls in flight, by call id
  second,    \* a second encrypt call with the arguments of the first, and what it returned
  keys,      \* the key derivations made so far: from signatures, and by ECDH + HKDF
  signer,    \* a signRawMessage call: its position, the requests created, its outcome
  caching,   \* a validateSignatureCaching call: its position, the two results, its events
  token      \* the TestSRC20 contract: admin, totalSupply, balances, allowances

\* How many fields of the fetched record may arrive differently from what was
\* sealed (another representation, a missing or malformed field, tampering).
MaxEdits == 1

SenderText == Str(bytesToHex(RepBytes(17, 20)))

RecipientText == Str(bytesToHex(RepBytes(34, 20)))

PubkeyText == Str(bytesToHex(<<2>> \o RepBytes(0, 31) \o <<publicKeyOf(3)>>))

BlockHashText == Str(bytesToHex(RepBytes(171, 32)))

NonceText == Str(bytesToHex(RepBytes(0, 11) \o <<9>>))

\* transfer(to, amount) calldata, shortened: selector, one byte of each argument.
Calldata == <<169, 5, 156, 187, 34, 200>>

\* The record as the network returns it for a transaction it sealed.
BaseTx(nonce, signedRead) ==
  [ from |-> SenderText,
    chainId |-> Num(5),
    nonce |-> Num(nonce),
    to |-> RecipientText,
    value |-> Big(0),
    encryptionPubkey |-> PubkeyText,
    encryptionNonce |-> NonceText,
    messageVersion |-> Text0x0,
    recentBlockHash |-> BlockHashText,
    expiresAtBlock |-> Big(18),
    signedRead |-> Bool(signedRead),
    input |-> [body |-> <<>>, tag |-> GcmTag([hkdf |-> 0], <<>>, <<>>, <<>>)] ]

\* The sender seals the calldata under the key it shares with the TEE, the
\* transaction's encryption nonce and the AAD of its metadata.
SealTx(base, senderSk, plaintext) ==
  LET key == generateAesKey(senderSk, NETWORK_TEE_PUBLIC_KEY)
      nonce == RlpField(base.encryptionNonce).bytes
      aad == constructAAD(base).bytes
      ct == AesGcmSeal(key, nonce, plaintext, aad)
  IN [tx |-> [base EXCEPT !.input = ct], sk |-> senderSk, key |-> key,
      nonce |-> nonce,
      aad |-> aad, plaintext |-> plaintext, ciphertext |-> ct]

\* The numeric representations a field may arrive in: number, bigint, decimal
\* text, 0x text.
NumericForms(k) ==
  {Num(k), Big(k), Str(NatToDecText(k)), Str(Prefix0x \o NatToHexText(k))}

NumericValues == {0, 5, 18}

\* An account nonce whose RLP item takes two bytes.
LongNonce == 200

NumericOptions == (UNION {NumericForms(k) : k \in NumericValues}) \cup {Undef}

\* A ciphertext with one bit of its first byte flipped.
FlipBody(ct) ==
  [ct EXCEPT !.body = [ct.body EXCEPT ![1] =
      IF ct.body[1] % 2 = 0 THEN ct.body[1] + 1 ELSE ct.body[1] - 1]]

\* A ciphertext with one bit of its tag flipped.
FlipTag(ct) == [ct EXCEPT !.tag.flip = 1]

\* A transfer of another amount.
OtherCalldata == <<169, 5, 156, 187, 34, 201>>

\* An input that is a bare AES-GCM ciphertext: sealed under the key shared
\* with the TEE and the nonce 9, without AAD.
SealedBare(plaintext) ==
  AesGcmSeal(generateAesKey(3, NETWORK_TEE_PUBLIC_KEY), NonceOfNumber(9),
             plaintext, <<>>)

\* The values a field of the fetched record may hold.
FieldOptions(f, cur) ==
  CASE f = "from" ->
         {SenderText, Str(bytesToHex(RepBytes(17, 19))), Undef}
    [] f = "nonce" -> NumericOptions \cup {Num(LongNonce)}
    [] f \in {"chainId", "value", "expiresAtBlock"} -> NumericOptions
    [] f = "to" ->
         {RecipientText, Null, Undef, Str(bytesToHex(RepBytes(34, 21)))}
    [] f = "encryptionPubkey" ->
         {PubkeyText, Str(SliceFrom(PubkeyText.s, 2)),
          Str(bytesToHex(RepBytes(2, 32))), Undef}
    [] f = "encryptionNonce" ->
         {NonceText, Text0x0, Text0x00, Undef,
          Str(bytesToHex(RepBytes(0, 11) \o <<8>>))}
    [] f = "messageVersion" ->
         {Text0x0, Text0x00, Text0x, Text0x01, Undef}
    [] f = "recentBlockHash" ->
         {BlockHashText, Str(bytesToHex(RepBytes(171, 31))), Undef}
    [] f = "signedRead" -> {Bool(FALSE), Bool(TRUE)}
    [] f = "input" ->
         {FlipBody(cur), FlipTag(cur), SealedBare(Calldata), SealedBare(OtherCalldata)}

FieldNames ==
  {"from", "chainId", "nonce", "to", "value", "encryptionPubkey",
   "encryptionNonce", "messageVersion", "recentBlockHash", "expiresAtBlock",
   "signedRead", "input"}

NoCall == [made |-> FALSE,
           res |-> [ok |-> FALSE, v |-> Undef, err |-> "none", opens |-> 0]]

NoAad == [made |-> FALSE,
          res |-> [ok |-> FALSE, bytes |-> <<>>, fields |-> <<>>, err |-> "none"]]

NoHist == [made |-> FALSE, version |-> 0, original |-> <<>>,
           res |-> [returned |-> FALSE, success |-> FALSE,
                    encryptedCalldata |-> <<>>, decryptedCalldata |-> Undef,
                    attempts |-> <<>>, rpcKeys |-> {}]]

\* The calldata a caller may hand over as the original: the whole of it or
\* its selector alone.
OriginalOptions == {Calldata, TransferSelector}

\* The readings of the clock.
ClockOptions == {1, 9}

\* The 32-byte keys, and one of 31 bytes.
KeyOptions ==
  {Str(bytesToHex(RepBytes(1, 32))), Str(bytesToHex(RepBytes(2, 32))),
   Str(bytesToHex(RepBytes(1, 31)))}

\* The data handed to encrypt: lower-case hex, the same bytes in upper case,
\* an odd number of digits, no prefix, a byte array, nothing.
CalldataText == Str(bytesToHex(Calldata))

UpperText == Str(Prefix0x \o <<"A", "9", "0", "5", "9", "C", "B", "B">>)

PlaintextOptions ==
  {CalldataText, UpperText, Str(Prefix0x \o <<"a", "b", "c">>),
   Str(<<"a", "9", "0", "5">>), Str(Prefix0x)}

\* The byte arrays handed to encrypt.
DataOptions == {TransferSelector, <<>>}

\* The ivs getRandomValues may draw.
IvOptions == {RepBytes(7, IV_BYTES), RepBytes(8, IV_BYTES)}

NoEncrypt == [made |-> FALSE, key |-> Str(<<>>), plaintext |-> Str(<<>>),
              data |-> <<>>,
              res |-> [ok |-> FALSE, payload |-> NoPayload, err |-> "none"]]

NoDecrypt == [made |-> FALSE, key |-> Str(<<>>), res |-> Throw("none")]

NoVerdict == [made |-> FALSE, key |-> Str(<<>>), original |-> Str(<<>>),
              res |-> Throw("none")]

\* The fullSig texts the signer may answer with: a signature, the same bytes
\* in upper case, another signature, and "" for an answer without fullSig.
SigOptions ==
  {<<"0", "x", "a", "b", "1", "2">>, <<"0", "x", "A", "B", "1", "2">>,
   <<"0", "x", "c", "d", "3", "4">>, <<>>}

\* A signRawMessage call that has not started.
NoSigning ==
  [pc |-> "idle", entry |-> "none", messageHex |-> <<>>, requests |-> {},
   creates |-> 0, hasId |-> FALSE, maxAttempts |-> 0, attempt |-> 0,
   polls |-> 0, sleeps |-> 0, lastStatus |-> "none", sawTerminal |-> FALSE,
   pollEnd |-> "none", signedCount |-> 0, error |-> "none", fullSig |-> <<>>]

\* How many decryptTransactionInput calls are in flight at once.
MaxCalls == 2

CallIds == 1..MaxCalls

\* The answers of the node to getTeePublicKey: the key the sender sealed for,
\* and the key of another enclave.
TeeKeyAnswers == {NETWORK_TEE_PUBLIC_KEY, publicKeyOf(5)}

\* A call that has not started.
NoCallAt ==
  [pc |-> "idle", version |-> 0, teeKey |-> 0, aesKey |-> [hkdf |-> 0],
   aad |-> NoAad.res, input |-> BaseTx(0, FALSE).input, nonce |-> Undef,
   finishedBefore |-> 0, res |-> NoCall.res]

\* The amount the demo transfers, in ETH (10^18 wei).
DEMO_AMOUNT == 1

\* The balance readBalance returns before the transfer, in ETH.
initialBalance == 3

\* A demo run: version 1 or 2 of demo.ts (0: none), its position, the two
\* signatures, the derived keys, the key the Seismic client was created with,
\* the keys encrypt was called with, what decrypt returned in the roundtrip,
\* whether the transfer was submitted, the status of its receipt, the balance
\* read after it, the calldata decrypted from the fetched transaction, the
\* lines of the summary, and the error the run stopped with.
DemoAt(version, pc) ==
  [version |-> version, pc |-> pc, first |-> <<>>, second |-> <<>>,
   identical |-> FALSE, derivedKey1 |-> Str(<<>>), derivedKey2 |-> Str(<<>>),
   clientKeys |-> {}, encryptKeys |-> {}, decrypted |-> Undef,
   submitted |-> FALSE, receiptStatus |-> "none",
   finalBalance |-> initialBalance, decryptedCalldata |-> Undef,
   printed |-> {}, error |-> "none"]

\* ------------------------------------------------------------------------
\* contracts: SRC20.sol and TestSRC20.sol
\* ------------------------------------------------------------------------

\* The addresses that call the contract or hold its tokens.
Accounts == {"a1", "a2"}

\* The address that deploys TestSRC20.
Deployer == "a1"

\* The width in bits of the contract's unsigned words (256 in the EVM).
WordBits == 2

Modulus == 2 ^ WordBits

\* type(uint256).max.
MaxUint == Modulus - 1

\* TestSRC20 after its constructor: the deployer is the admin, no supply, no
\* balances, no allowances. deployer keeps the constructor's msg.sender and
\* last the latest call: its function, its msg.sender, whether it reverted.
Deployed(sender) ==
  [admin |-> sender, totalSupply |-> 0,
   balance |-> [a \in Accounts |-> 0],
   allowance |-> [a \in Accounts |-> [b \in Accounts |-> 0]],
   deployer |-> sender,
   last |-> [op |-> "none", sender |-> sender, reverted |-> FALSE]]

\* A call that reverted leaves the storage as it was.
Reverted(t) == [reverted |-> TRUE, t |-> t]

Returned(t) == [reverted |-> FALSE, t |-> t]

\* approve(spender, amount) sent by sender.
approve(t, sender, spender, amount) ==
  Returned([t EXCEPT !.allowance[sender][spender] = amount])

\* The debit is checked arithmetic (it reverts below zero), the credit is in
\* an unchecked block (it wraps).
Moved(balance, from, to, amount) ==
  [balance EXCEPT ![from] = @ - amount, ![to] = (@ + amount) % Modulus]

\* transfer(to, amount) sent by sender.
transfer(t, sender, to, amount) ==
  IF t.balance[sender] < amount THEN Reverted(t)
  ELSE Returned([t EXCEPT !.balance = Moved(@, sender, to, amount)])

\* transferFrom(from, to, amount) sent by sender: an allowance other than
\* type(uint256).max is reduced (checked), then the balance is moved.
transferFrom(t, sender, from, to, amount) ==
  IF t.allowance[from][sender] # MaxUint /\ t.allowance[from][sender] < amount
    THEN Reverted(t)
  ELSE IF t.balance[from] < amount THEN Reverted(t)
  ELSE Returned([t EXCEPT
         !.allowance[from][sender] = IF @ = MaxUint THEN @ ELSE @ - amount,
         !.balance = Moved(@, from, to, amount)])

\* _mint with the addition to totalSupply unchecked as well.
mintInternal_unchecked(t, to, amount) ==
  Returned([t EXCEPT !.totalSupply = (@ + amount) % Modulus,
                     !.balance[to] = (@ + amount) % Modulus])

\* _mint(to, amount): totalSupply += amount is checked, the credit is not.
mintInternal(t, to, amount) ==
  IF t.totalSupply + amount > MaxUint THEN Reverted(t)
  ELSE Returned([t EXCEPT !.totalSupply = @ + amount,
                          !.balance[to] = (@ + amount) % Modulus])

\* _burn(from, amount): balance[from] -= amount is checked, the subtraction
\* from totalSupply is not.
burnInternal(t, from, amount) ==
  IF t.balance[from] < amount THEN Reverted(t)
  ELSE Returned([t EXCEPT !.balance[from] = @ - amount,
                          !.totalSupply = (@ - amount) % Modulus])

\* onlyAdmin letting every sender through.
onlyAdmin_anyone(t, sender) == sender \in Accounts

\* modifier onlyAdmin: require(msg.sender == admin).
onlyAdmin(t, sender) == sender = t.admin

\* mint(to, amount) sent by sender.
mint(t, sender, to, amount) ==
  IF ~onlyAdmin(t, sender) THEN Reverted(t) ELSE mintInternal(t, to, amount)

\* burn(from, amount) sent by sender.
burn(t, sender, from, amount) ==
  IF ~onlyAdmin(t, sender) THEN Reverted(t) ELSE burnInternal(t, from, amount)

\* A validateSignatureCaching call that has not started.
NoCaching ==
  [pc |-> "idle", messageHex |-> <<>>, first |-> <<>>, second |-> <<>>,
   identical |-> FALSE, returned |-> FALSE, log |-> <<>>]

vars == <<tx, sealed, sk, edits, aadOut, call, hist, payload, opened, verdict, demo,
          calls, second, keys, signer, caching, token>>

sideVars == <<calls, second, keys, signer, caching, token>>

notCalls == <<second, keys, signer, caching, token>>

notSecond == <<calls, keys, signer, caching, token>>

notKeys == <<calls, second, signer, caching, token>>

notSigner == <<calls, second, keys, caching, token>>

notCaching == <<calls, second, keys, token>>

notToken == <<calls, second, keys, signer, caching>>

cryptoVars == <<payload, opened, verdict>>

txVars == <<tx, sealed, sk, edits, aadOut, call, hist>>

InitTx(nonce) ==
  LET base == BaseTx(nonce, FALSE)
      s == SealTx(base, 3, Calldata)
  IN /\ sealed = s
     /\ tx = s.tx
     /\ sk = 3
     /\ edits = 0
     /\ aadOut = NoAad
     /\ call = NoCall
     /\ hist = NoHist

InitCryptoIdle == payload = NoEncrypt /\ opened = NoDecrypt /\ verdict = NoVerdict

InitCallsIdle ==
  /\ calls = [i \in CallIds |-> NoCallAt]
  /\ second = NoEncrypt
  /\ keys = [sig |-> <<>>, aes |-> <<>>]
  /\ signer = NoSigning
  /\ caching = NoCaching

InitSideIdle == InitCallsIdle /\ token = Deployed(Deployer)

Init ==
  /\ InitTx(0)
  /\ InitCryptoIdle
  /\ InitSideIdle
  /\ demo = DemoAt(0, "idle")

\* A field of the fetched record differs from the sealed one.
SetField(f, v) ==
  /\ edits < MaxEdits
  /\ ~aadOut.made /\ ~call.made /\ ~hist.made
  /\ tx[f] # v
  /\ tx' = [tx EXCEPT ![f] = v]
  /\ edits' = edits + 1
  /\ UNCHANGED <<sealed, sk, aadOut, call, hist, cryptoVars, demo, sideVars>>

\* The caller holds another encryption secret.
UseKey(k) ==
  /\ ~aadOut.made /\ ~call.made /\ ~hist.made
  /\ sk # k
  /\ sk' = k
  /\ UNCHANGED <<tx, sealed, edits, aadOut, call, hist, cryptoVars, demo, sideVars>>

\* constructAAD(tx).
ConstructAAD ==
  /\ ~aadOut.made /\ ~hist.made
  /\ aadOut' = [made |-> TRUE, res |-> constructAAD(tx)]
  /\ UNCHANGED <<tx, sealed, sk, edits, call, hist, cryptoVars, demo, sideVars>>

\* decryptTransactionInput(sk, tx).
DecryptTransactionInput ==
  /\ ~call.made /\ ~hist.made
  /\ call' = [made |-> TRUE, res |-> decryptTransactionInput(sk, tx)]
  /\ UNCHANGED <<tx, sealed, sk, edits, aadOut, hist, cryptoVars, demo, sideVars>>

\* decryptHistoricalTransaction of the first version of transaction.ts.
DecryptHistoricalFirst(original, now) ==
  /\ ~aadOut.made /\ ~call.made /\ ~hist.made
  /\ hist' = [made |-> TRUE, version |-> 1, original |-> original,
              res |-> decryptHistoricalTransactionFirst(sk, tx, original, now)]
  /\ UNCHANGED <<tx, sealed, sk, edits, aadOut, call, cryptoVars, demo, sideVars>>

\* decryptHistoricalTransaction of the later version of transaction.ts.
DecryptHistorical(original) ==
  /\ ~aadOut.made /\ ~call.made /\ ~hist.made
  /\ hist' = [made |-> TRUE, version |-> 2, original |-> original,
              res |-> decryptHistoricalTransaction(sk, tx, original)]
  /\ UNCHANGED <<tx, sealed, sk, edits, aadOut, call, cryptoVars, demo, sideVars>>

Next ==
  \/ \E f \in FieldNames : \E v \in FieldOptions(f, tx[f]) : SetField(f, v)
  \/ \E k \in {3, 4} : UseKey(k)
  \/ ConstructAAD
  \/ DecryptTransactionInput
  \/ \E original \in OriginalOptions : \E now \in ClockOptions :
       DecryptHistoricalFirst(original, now)
  \/ \E original \in OriginalOptions : DecryptHistorical(original)

Spec == Init /\ [][Next]_vars

\* ------------------------------------------------------------------------
\* The crypto functions called on their own
\* ------------------------------------------------------------------------

InitCrypto ==
  /\ InitTx(0)
  /\ InitCryptoIdle
  /\ InitSideIdle
  /\ demo = DemoAt(0, "idle")

\* encrypt(keyHex, plaintext) on hex text.
Encrypt(keyHex, plaintext, iv) ==
  /\ ~payload.made
  /\ payload' = [made |-> TRUE, key |-> keyHex, plaintext |-> plaintext,
                 data |-> <<>>, res |-> encrypt(keyHex, plaintext, iv)]
  /\ UNCHANGED <<txVars, opened, verdict, demo, sideVars>>

\* encrypt(keyHex, plaintext) on a Uint8Array.
EncryptBytes(keyHex, data, iv) ==
  /\ ~payload.made
  /\ payload' = [made |-> TRUE, key |-> keyHex, plaintext |-> Undef,
                 data |-> data, res |-> encrypt(keyHex, Bytes(data), iv)]
  /\ UNCHANGED <<txVars, opened, verdict, demo, sideVars>>

\* decrypt(keyHex, payload) on the payload encrypt returned.
Decrypt(keyHex) ==
  /\ payload.made /\ payload.res.ok /\ ~opened.made
  /\ opened' = [made |-> TRUE, key |-> keyHex,
                res |-> decrypt(keyHex, payload.res.payload)]
  /\ UNCHANGED <<txVars, payload, verdict, demo, sideVars>>

\* verifyRoundtrip(keyHex, original).
VerifyRoundtrip(keyHex, original, iv) ==
  /\ ~verdict.made
  /\ verdict' = [made |-> TRUE, key |-> keyHex, original |-> original,
                 res |-> verifyRoundtrip(keyHex, original, iv)]
  /\ UNCHANGED <<txVars, payload, opened, demo, sideVars>>

\* encrypt called once more with the key and the plaintext of the first call.
EncryptAgain(iv) ==
  /\ payload.made /\ ~second.made
  /\ second' = [payload EXCEPT !.res =
                  encrypt(payload.key,
                          IF payload.plaintext = Undef THEN Bytes(payload.data)
                          ELSE payload.plaintext,
                          iv)]
  /\ UNCHANGED <<txVars, cryptoVars, demo, notSecond>>

NextCrypto ==
  \/ \E iv \in IvOptions : EncryptAgain(iv)
  \/ \E k \in KeyOptions : \E p \in PlaintextOptions : \E iv \in IvOptions :
       Encrypt(k, p, iv)
  \/ \E k \in KeyOptions : \E d \in DataOptions : \E iv \in IvOptions :
       EncryptBytes(k, d, iv)
  \/ \E k \in KeyOptions : Decrypt(k)
  \/ \E k \in KeyOptions : \E p \in PlaintextOptions : \E iv \in IvOptions :
       VerifyRoundtrip(k, p, iv)

SpecCrypto == InitCrypto /\ [][NextCrypto]_vars

\* ------------------------------------------------------------------------
\* decryptTransactionInput calls running concurrently
\* ------------------------------------------------------------------------

\* The transaction objects the calls are handed: the record as sealed, one
\* with a flipped tag, one without its messageVersion.
CallTxOptions(t) ==
  {t, [t EXCEPT !.input = FlipTag(t.input)], [t EXCEPT !.messageVersion = Undef]}

InitConcurrent ==
  /\ \E t \in CallTxOptions(SealTx(BaseTx(0, FALSE), 3, Calldata).tx) : tx = t
  /\ sealed = SealTx(BaseTx(0, FALSE), 3, Calldata)
  /\ \E k \in {3, 4} : sk = k
  /\ edits = 0
  /\ aadOut = NoAad
  /\ call = NoCall
  /\ hist = NoHist
  /\ InitCryptoIdle
  /\ InitSideIdle
  /\ demo = DemoAt(0, "idle")

\* What a call holds once it has run up to its await of crypto.decrypt: the
\* key from generateAesKey, the AAD, and the arguments read from tx.
Captured(c, encryptionSk, t, networkTeePublicKey) ==
  [c EXCEPT !.pc = "decrypting",
            !.teeKey = networkTeePublicKey,
            !.aesKey = generateAesKey(encryptionSk, networkTeePublicKey),
            !.aad = constructAAD(t),
            !.input = t.input,
            !.nonce = t.encryptionNonce]

\* A call starts. The version with the constant key runs without a pause up
\* to crypto.decrypt; the version that takes a client first awaits
\* client.getTeePublicKey().
CallStart(i, version) ==
  /\ calls[i].pc = "idle"
  /\ calls' = [calls EXCEPT ![i] =
       IF version = 1
         THEN Captured([calls[i] EXCEPT !.version = 1], sk, tx,
                       NETWORK_TEE_PUBLIC_KEY)
       ELSE [calls[i] EXCEPT !.version = 2, !.pc = "fetching"]]
  /\ UNCHANGED <<txVars, cryptoVars, demo, notCalls>>

\* The node answers getTeePublicKey and the call runs on to crypto.decrypt.
CallTeeKey(i, networkTeePublicKey) ==
  /\ calls[i].pc = "fetching"
  /\ calls' = [calls EXCEPT ![i] = Captured(calls[i], sk, tx, networkTeePublicKey)]
  /\ UNCHANGED <<txVars, cryptoVars, demo, notCalls>>

\* How many calls have returned.
Finished == Cardinality({i \in CallIds : calls[i].pc = "done"})

\* CallResult with one cipher object shared by the calls, its nonce advancing
\* with every use.
CallResult_sharedCipher(c, finishedBefore) ==
  DecryptWithAad(c.aesKey, c.aad,
                 [input |-> c.input,
                  encryptionNonce |->
                    IF finishedBefore = 0 THEN c.nonce
                    ELSE Str(bytesToHex(RepBytes(0, 11) \o <<8>>))])

\* What crypto.decrypt resolves to for a call: a new AesGcmCrypto on the
\* call's own key, opened with the arguments the call read.
CallResult(c, finishedBefore) ==
  DecryptWithAad(c.aesKey, c.aad, [input |-> c.input, encryptionNonce |-> c.nonce])

\* crypto.decrypt resolves (or rejects) and the call returns.
CallReturn(i) ==
  /\ calls[i].pc = "decrypting"
  /\ calls' = [calls EXCEPT ![i] =
       [calls[i] EXCEPT !.pc = "done", !.finishedBefore = Finished,
                        !.res = CallResult(calls[i], Finished)]]
  /\ UNCHANGED <<txVars, cryptoVars, demo, notCalls>>

NextConcurrent ==
  \/ \E i \in CallIds : \E version \in {1, 2} : CallStart(i, version)
  \/ \E i \in CallIds : \E k \in TeeKeyAnswers : CallTeeKey(i, k)
  \/ \E i \in CallIds : CallReturn(i)
  \/ ConstructAAD

SpecConcurrent == InitConcurrent /\ [][NextConcurrent]_vars

\* ------------------------------------------------------------------------
\* The key derivations called on their own
\* ------------------------------------------------------------------------

\* How many keys are derived from signatures.
MaxSigDerive == 2

\* How many keys are derived by ECDH + HKDF.
MaxAesDerive == 2

\* The fullSig texts handed to deriveKeyFromSignature: those of the signer,
\* one with characters that are no hex digits, one with an odd digit count.
SigTexts ==
  SigOptions \cup {<<"0", "x", "z", "z">>, <<"0", "x", "a", "b", "c">>}

InitKeys ==
  /\ InitTx(0)
  /\ InitCryptoIdle
  /\ InitSideIdle
  /\ demo = DemoAt(0, "idle")

\* deriveKeyFromSignature({fullSig}) of key-derivation.ts (version 1) or of
\* the later file on viem's hexToBytes (version 2).
DeriveFromSignature(version, fullSig) ==
  /\ Len(keys.sig) < MaxSigDerive
  /\ keys' = [keys EXCEPT !.sig = Append(@,
       [version |-> version, fullSig |-> fullSig,
        res |-> IF version = 1 THEN Ok(deriveKeyFromSignature(fullSig))
                ELSE deriveKeyFromSignature2(fullSig)])]
  /\ UNCHANGED <<txVars, cryptoVars, demo, notKeys>>

\* generateAesKey({privateKey, networkPublicKey}).
DeriveAesKey(privateKey, networkPublicKey) ==
  /\ Len(keys.aes) < MaxAesDerive
  /\ keys' = [keys EXCEPT !.aes = Append(@,
       [privateKey |-> privateKey, networkPublicKey |-> networkPublicKey,
        key |-> generateAesKey(privateKey, networkPublicKey)])]
  /\ UNCHANGED <<txVars, cryptoVars, demo, notKeys>>

NextKeys ==
  \/ \E version \in {1, 2} : \E fullSig \in SigTexts :
       DeriveFromSignature(version, fullSig)
  \/ \E privateKey \in {3, 4} : \E networkPublicKey \in TeeKeyAnswers :
       DeriveAesKey(privateKey, networkPublicKey)

SpecKeys == InitKeys /\ [][NextKeys]_vars

\* ------------------------------------------------------------------------
\* fireblocks/signer.ts: signRawMessage
\* ------------------------------------------------------------------------

\* pollTransaction's default number of attempts.
maxAttempts == 120

\* The statuses that end the polling with an error.
TERMINAL_STATUSES == {"COMPLETED", "FAILED", "REJECTED", "BLOCKED", "CANCELLED"}

\* The statuses getTransaction may report, and "none" for no transaction.
StatusAnswers == TERMINAL_STATUSES \cup {"SUBMITTED", "none"}

\* n times the character c.
RepChar(c, n) == [i \in 1..n |-> c]

\* The messages handed to signRawMessage: 64 hex digits with and without 0x,
\* 64 characters that are no hex digits with and without 0x, 62 and 66 hex
\* digits, nothing.
MessageOptions ==
  {Prefix0x \o RepChar("a", 64), RepChar("5", 64),
   Prefix0x \o RepChar("z", 64), RepChar("z", 64),
   Prefix0x \o RepChar("a", 62), RepChar("a", 66), <<>>}

\* What Fireblocks returns as signedMessages: nothing, an empty array, a
\* message with its fullSig, a message without one.
SignedAnswers ==
  {[present |-> FALSE, count |-> 0, fullSig |-> Undef],
   [present |-> TRUE, count |-> 0, fullSig |-> Undef],
   [present |-> TRUE, count |-> 1, fullSig |-> Str(<<"0", "x", "a", "b", "1", "2">>)],
   [present |-> TRUE, count |-> 1, fullSig |-> Str(<<"0", "x", "c", "d", "3", "4">>)],
   [present |-> TRUE, count |-> 1, fullSig |-> Undef]}

InitSigner ==
  /\ InitTx(0)
  /\ InitCryptoIdle
  /\ InitSideIdle
  /\ demo = DemoAt(0, "idle")

SigningFailed(error) == [signer EXCEPT !.pc = "failed", !.error = error]

\* The message without its optional 0x.
contentOf(messageHex) ==
  IF startsWith0x(messageHex) THEN SliceFrom(messageHex, 2) ELSE messageHex

\* signRawMessage up to the createTransaction request: the prefix is
\* stripped, a content that is not 64 characters long throws, any other
\* content is sent.
Requested(s, messageHex) ==
  IF Len(contentOf(messageHex)) # 64
    THEN [s EXCEPT !.pc = "failed", !.error = "NotThirtyTwoBytes",
                   !.entry = "signRawMessage", !.messageHex = messageHex]
  ELSE [s EXCEPT !.pc = "creating", !.messageHex = messageHex,
                 !.entry = "signRawMessage",
                 !.creates = @ + 1,
                 !.requests = @ \cup {contentOf(messageHex)}]

SignCreate(messageHex) ==
  /\ signer.pc = "idle"
  /\ signer' = Requested(signer, messageHex)
  /\ UNCHANGED <<txVars, cryptoVars, demo, notSigner>>

\* createTransaction answers, with a transaction id or without; with an id
\* pollTransaction is called with its default maxAttempts.
SignCreated(hasId) ==
  /\ signer.pc = "creating"
  /\ signer' = IF hasId THEN [signer EXCEPT !.pc = "polling", !.hasId = TRUE,
                                            !.maxAttempts = maxAttempts]
               ELSE SigningFailed("NoTransactionId")
  /\ UNCHANGED <<txVars, cryptoVars, demo, notSigner>>

\* The attempt counts pollTransaction is called with on its own.
AttemptOptions == {0, 2}

\* pollTransaction(client, txId, pollIntervalMs, maxAttempts) called on its own.
PollTransaction(attempts) ==
  /\ signer.pc = "idle"
  /\ signer' = [signer EXCEPT !.pc = "polling", !.entry = "pollTransaction",
                              !.maxAttempts = attempts]
  /\ UNCHANGED <<txVars, cryptoVars, demo, notSigner>>

\* The loop condition has failed: attempt has reached maxAttempts.
PollExhausted_early(s) == s.attempt >= 1

PollExhausted(s) == s.attempt >= s.maxAttempts

\* PollStep returning the transaction for every terminal status.
PollStep_anyTerminal(s, status) ==
  IF status = "none"
    THEN [s EXCEPT !.polls = @ + 1, !.lastStatus = status, !.pc = "failed",
                   !.error = "NotFound", !.pollEnd = "notfound"]
  ELSE IF status \in TERMINAL_STATUSES
    THEN [s EXCEPT !.polls = @ + 1, !.lastStatus = status,
                   !.pc = "completed", !.pollEnd = "returned"]
  ELSE [s EXCEPT !.polls = @ + 1, !.lastStatus = status,
                 !.attempt = @ + 1, !.sleeps = @ + 1]

\* PollStep throwing for no status but reading on after FAILED, REJECTED,
\* BLOCKED and CANCELLED as after a status that is not terminal.
PollStep_keepsPolling(s, status) ==
  IF status = "none"
    THEN [s EXCEPT !.polls = @ + 1, !.lastStatus = status, !.pc = "failed",
                   !.error = "NotFound", !.pollEnd = "notfound"]
  ELSE IF status = "COMPLETED"
    THEN [s EXCEPT !.polls = @ + 1, !.lastStatus = status,
                   !.pc = "completed", !.pollEnd = "returned"]
  ELSE [s EXCEPT !.polls = @ + 1, !.lastStatus = status,
                 !.sawTerminal = @ \/ status \in TERMINAL_STATUSES,
                 !.attempt = @ + 1, !.sleeps = @ + 1]

\* One round of pollTransaction's loop on what getTransaction answered: no
\* transaction throws, COMPLETED returns it, another terminal status throws,
\* any other status sleeps and goes round again.
PollStep(s, status) ==
  IF status = "none"
    THEN [s EXCEPT !.polls = @ + 1, !.lastStatus = status, !.pc = "failed",
                   !.error = "NotFound", !.pollEnd = "notfound"]
  ELSE IF status = "COMPLETED"
    THEN [s EXCEPT !.polls = @ + 1, !.lastStatus = status,
                   !.pc = "completed", !.pollEnd = "returned"]
  ELSE IF status \in TERMINAL_STATUSES
    THEN [s EXCEPT !.polls = @ + 1, !.lastStatus = status, !.pc = "failed",
                   !.error = status, !.sawTerminal = TRUE,
                   !.pollEnd = "terminal"]
  ELSE [s EXCEPT !.polls = @ + 1, !.lastStatus = status,
                 !.attempt = @ + 1, !.sleeps = @ + 1]

SignPoll(status) ==
  /\ signer.pc = "polling"
  /\ ~PollExhausted(signer)
  /\ signer' = PollStep(signer, status)
  /\ UNCHANGED <<txVars, cryptoVars, demo, notSigner>>

\* pollTransaction's loop ends without a terminal status.
SignPollTimeout ==
  /\ signer.pc = "polling"
  /\ PollExhausted(signer)
  /\ signer' = [signer EXCEPT !.pc = "failed", !.error = "TimedOut",
                              !.pollEnd = "timeout"]
  /\ UNCHANGED <<txVars, cryptoVars, demo, notSigner>>

\* ExtractSignature returning a result whatever signedMessages holds.
ExtractSignature_unchecked(s, signed) ==
  [s EXCEPT !.pc = "returned", !.signedCount = signed.count,
            !.fullSig = IF signed.fullSig = Undef THEN <<>>
                        ELSE signed.fullSig.s]

\* signRawMessage on the completed transaction: no signedMessages throws;
\* otherwise the result carries the first signed message's signature,
\* fullSig ?? "".
ExtractSignature(s, signed) ==
  IF ~signed.present \/ signed.count = 0
    THEN [s EXCEPT !.pc = "failed", !.error = "NoSignedMessages"]
  ELSE [s EXCEPT !.pc = "returned", !.signedCount = signed.count,
                 !.fullSig = IF signed.fullSig = Undef THEN <<>>
                             ELSE signed.fullSig.s]

SignReturn(signed) ==
  /\ signer.pc = "completed"
  /\ signer.entry = "signRawMessage"
  /\ signer' = ExtractSignature(signer, signed)
  /\ UNCHANGED <<txVars, cryptoVars, demo, notSigner>>

NextSigner ==
  \/ \E messageHex \in MessageOptions : SignCreate(messageHex)
  \/ \E hasId \in BOOLEAN : SignCreated(hasId)
  \/ \E attempts \in AttemptOptions : PollTransaction(attempts)
  \/ \E status \in StatusAnswers : SignPoll(status)
  \/ SignPollTimeout
  \/ \E signed \in SignedAnswers : SignReturn(signed)

SpecSigner == InitSigner /\ [][NextSigner]_vars

\* Every getTransaction call, every sleep and every request returns: a step
\* that can be taken is taken.
SpecSignerLive == SpecSigner /\ WF_vars(NextSigner)

\* ------------------------------------------------------------------------
\* Calls on the deployed TestSRC20
\* ------------------------------------------------------------------------

\* The amounts the calls carry. An owner approves another account as
\* spender.
Amounts == {1, MaxUint}

InitToken ==
  /\ InitTx(0)
  /\ InitCryptoIdle
  /\ InitSideIdle
  /\ demo = DemoAt(0, "idle")

\* The storage after a call, with the call noted.
AfterCall(result, op, sender) ==
  [result.t EXCEPT !.last = [op |-> op, sender |-> sender,
                             reverted |-> result.reverted]]

Mint(sender, to, amount) ==
  /\ token' = AfterCall(mint(token, sender, to, amount), "mint", sender)
  /\ UNCHANGED <<txVars, cryptoVars, demo, notToken>>

Burn(sender, from, amount) ==
  /\ token' = AfterCall(burn(token, sender, from, amount), "burn", sender)
  /\ UNCHANGED <<txVars, cryptoVars, demo, notToken>>

Transfer(sender, to, amount) ==
  /\ token' = AfterCall(transfer(token, sender, to, amount), "transfer", sender)
  /\ UNCHANGED <<txVars, cryptoVars, demo, notToken>>

TransferFrom(sender, from, to, amount) ==
  /\ token' = AfterCall(transferFrom(token, sender, from, to, amount),
                        "transferFrom", sender)
  /\ UNCHANGED <<txVars, cryptoVars, demo, notToken>>

Approve(sender, spender, amount) ==
  /\ token' = AfterCall(approve(token, sender, spender, amount), "approve", sender)
  /\ UNCHANGED <<txVars, cryptoVars, demo, notToken>>

NextToken ==
  \/ \E sender, to \in Accounts : \E amount \in Amounts : Mint(sender, to, amount)
  \/ \E sender, from \in Accounts : \E amount \in Amounts : Burn(sender, from, amount)
  \/ \E sender, to \in Accounts : \E amount \in Amounts : Transfer(sender, to, amount)
  \/ \E sender, from, to \in Accounts : \E amount \in Amounts :
       TransferFrom(sender, from, to, amount)
  \/ \E sender \in Accounts : \E spender \in Accounts \ {sender} :
       \E amount \in Amounts : Approve(sender, spender, amount)

SpecToken == InitToken /\ [][NextToken]_vars

\* ------------------------------------------------------------------------
\* fireblocks/signer.ts: validateSignatureCaching
\* ------------------------------------------------------------------------

InitCaching ==
  /\ InitTx(0)
  /\ InitCryptoIdle
  /\ InitSideIdle
  /\ demo = DemoAt(0, "idle")

\* The events of a call, in order: a createTransaction request of the n-th
\* signRawMessage, and how the n-th signRawMessage ended.
CreateEvents(s, n) == IF s.pc = "creating" THEN <<<<"create", n>>>> ELSE <<>>

SettledEvent(s, n) == <<"settled", n, s.pc, s.lastStatus>>

\* validateSignatureCaching is called and runs its first signRawMessage up to
\* the createTransaction request.
CachingStart(messageHex) ==
  /\ caching.pc = "idle" /\ signer.pc = "idle"
  /\ signer' = Requested(NoSigning, messageHex)
  /\ caching' = [caching EXCEPT !.pc = "first", !.messageHex = messageHex,
                                !.log = CreateEvents(signer', 1)]
  /\ UNCHANGED <<txVars, cryptoVars, demo, notCaching>>

\* FirstSettled holding for a first request that threw as well.
FirstSettled_anyEnd(s) == s.pc \in {"returned", "failed"}

\* The await of the first signRawMessage resumes with its result.
FirstSettled(s) == s.pc = "returned"

\* The first signRawMessage has returned: the second is called with the same
\* message and runs up to its createTransaction request.
CachingSecond ==
  /\ caching.pc = "first" /\ FirstSettled(signer)
  /\ signer' = Requested(NoSigning, caching.messageHex)
  /\ caching' = [caching EXCEPT
       !.pc = "second", !.first = signer.fullSig,
       !.log = @ \o <<SettledEvent(signer, 1)>> \o CreateEvents(signer', 2)]
  /\ UNCHANGED <<txVars, cryptoVars, demo, notCaching>>

\* The second signRawMessage has returned: the two fullSig are compared and
\* { first, second, identical } is returned.
CachingReturn ==
  /\ caching.pc = "second" /\ signer.pc = "returned"
  /\ caching' = [caching EXCEPT
       !.pc = "done", !.second = signer.fullSig,
       !.identical = (caching.first = signer.fullSig), !.returned = TRUE,
       !.log = @ \o <<SettledEvent(signer, 2)>>]
  /\ UNCHANGED <<txVars, cryptoVars, demo, signer, notCaching>>

\* A signRawMessage threw: validateSignatureCaching throws what it threw.
CachingThrow ==
  /\ caching.pc \in {"first", "second"} /\ signer.pc = "failed"
  /\ caching' = [caching EXCEPT
       !.pc = "failed",
       !.log = @ \o <<SettledEvent(signer, IF caching.pc = "first" THEN 1 ELSE 2)>>]
  /\ UNCHANGED <<txVars, cryptoVars, demo, signer, notCaching>>

NextCaching ==
  \/ \E messageHex \in MessageOptions : CachingStart(messageHex)
  \/ CachingSecond
  \/ CachingReturn
  \/ CachingThrow
  \/ \E hasId \in BOOLEAN : SignCreated(hasId)
  \/ \E status \in StatusAnswers : SignPoll(status)
  \/ SignPollTimeout
  \/ \E signed \in SignedAnswers : SignReturn(signed)

SpecCaching == InitCaching /\ [][NextCaching]_vars

\* ------------------------------------------------------------------------
\* demo.ts: main, from the signing requests to the submission
\* ------------------------------------------------------------------------

\* What a signRawMessage call ends in: a result with its fullSig, or an error.
SignOutcomes ==
  {[ok |-> TRUE, fullSig |-> sig] : sig \in SigOptions}
    \cup {[ok |-> FALSE, fullSig |-> <<>>]}

DemoFailed(error) == [demo EXCEPT !.pc = "failed", !.error = error]

InitDemo ==
  /\ InitTx(0)
  /\ InitCryptoIdle
  /\ InitSideIdle
  /\ \E version \in {1, 2} : demo = DemoAt(version, "sign1")

\* validateSignatureCaching: the first signRawMessage.
DemoSignFirst(r) ==
  /\ demo.pc = "sign1"
  /\ demo' = IF ~r.ok THEN DemoFailed("SignError")
             ELSE [demo EXCEPT !.first = r.fullSig, !.pc = "sign2"]
  /\ UNCHANGED <<txVars, cryptoVars, sideVars>>

\* validateSignatureCaching: the second signRawMessage and the comparison.
DemoSignSecond(r) ==
  /\ demo.pc = "sign2"
  /\ demo' = IF ~r.ok THEN DemoFailed("SignError")
             ELSE [demo EXCEPT !.second = r.fullSig,
                               !.identical = (demo.first = r.fullSig),
                               !.pc = "checked"]
  /\ UNCHANGED <<txVars, cryptoVars, sideVars>>

\* main on the result: the first version reports a difference and goes on,
\* the second throws.
DemoCheckIdentical ==
  /\ demo.pc = "checked"
  /\ demo' = IF demo.version = 2 /\ ~demo.identical
               THEN DemoFailed("SignaturesDiffer")
             ELSE [demo EXCEPT !.pc = "derive"]
  /\ UNCHANGED <<txVars, cryptoVars, sideVars>>

\* main derives a key from each signature; the second version throws when
\* the keys differ.
DemoDeriveKeys ==
  /\ demo.pc = "derive"
  /\ demo' =
       IF demo.version = 1
         THEN [demo EXCEPT !.derivedKey1 = deriveKeyFromSignature(demo.first),
                           !.derivedKey2 = deriveKeyFromSignature(demo.second),
                           !.pc = "client"]
       ELSE LET k1 == deriveKeyFromSignature2(demo.first)
                k2 == deriveKeyFromSignature2(demo.second)
            IN IF ~k1.ok THEN DemoFailed(k1.err)
               ELSE IF ~k2.ok THEN DemoFailed(k2.err)
               ELSE IF k1.v # k2.v THEN DemoFailed("KeysDiffer")
               ELSE [demo EXCEPT !.derivedKey1 = k1.v, !.derivedKey2 = k2.v,
                                 !.pc = "client"]
  /\ UNCHANGED <<txVars, cryptoVars, sideVars>>

\* createSeismicClient(seismicConfig, derivedKey1).
DemoCreateClient ==
  /\ demo.pc = "client"
  /\ demo' = [demo EXCEPT !.clientKeys = {demo.derivedKey1}, !.pc = "roundtrip"]
  /\ UNCHANGED <<txVars, cryptoVars, sideVars>>

\* encrypt(derivedKey1, calldata) and decrypt(derivedKey2, encrypted); the
\* first version reports a mismatch and goes on, the second throws.
DemoRoundtrip(iv) ==
  /\ demo.pc = "roundtrip"
  /\ LET encrypted == IF demo.version = 1
                        THEN encrypt(demo.derivedKey1, CalldataText, iv)
                      ELSE encrypt2(demo.derivedKey1, CalldataText, iv)
         decrypted == IF demo.version = 1
                        THEN decrypt(demo.derivedKey2, encrypted.payload)
                      ELSE decrypt2(demo.derivedKey2, encrypted.payload)
         used == [demo EXCEPT !.encryptKeys = {demo.derivedKey1}]
     IN demo' =
          IF ~encrypted.ok THEN DemoFailed(encrypted.err)
          ELSE IF ~decrypted.ok
            THEN [used EXCEPT !.pc = "failed", !.error = decrypted.err]
          ELSE IF /\ demo.version = 2
                  /\ toLowerCase(decrypted.v.s) # toLowerCase(CalldataText.s)
            THEN [used EXCEPT !.pc = "failed", !.error = "RoundtripFailed"]
          ELSE [used EXCEPT !.decrypted = decrypted.v, !.pc = "submit"]
  /\ UNCHANGED <<txVars, cryptoVars, sideVars>>

\* submitShieldedTransaction with the client created from derivedKey1; the
\* node accepts the transfer or the call throws.
DemoSubmit(accepted) ==
  /\ demo.pc = "submit"
  /\ demo' = IF accepted THEN [demo EXCEPT !.submitted = TRUE, !.pc = "submitted"]
             ELSE DemoFailed("SubmitError")
  /\ UNCHANGED <<txVars, cryptoVars, sideVars>>

\* What waitForReceipt ends in: a receipt with its status, or a timeout.
ReceiptAnswers == {"success", "reverted", "timeout"}

\* waitForReceipt(client, txHash): the receipt is returned whatever its
\* status is; main reads no more than its block number (version 2) or logs
\* the status (version 1).
DemoReceipt(status) ==
  /\ demo.pc = "submitted"
  /\ demo' = IF status = "timeout" THEN DemoFailed("ReceiptTimeout")
             ELSE [demo EXCEPT !.receiptStatus = status, !.pc = "balance"]
  /\ UNCHANGED <<txVars, cryptoVars, sideVars>>

\* The balances readBalance may return after the transfer: the amount was
\* taken from the sender, or nothing was.
BalanceAnswers == {initialBalance - DEMO_AMOUNT, initialBalance}

\* The step that reads the final balance: the balance and the delta are
\* logged and main goes on.
DemoBalance(finalBalance) ==
  /\ demo.pc = "balance"
  /\ demo' = [demo EXCEPT !.finalBalance = finalBalance, !.pc = "historical"]
  /\ UNCHANGED <<txVars, cryptoVars, sideVars>>

\* The secret scalar a key given as hex text stands for.
scalarOfKey(keyHex) == 1 + (SumBytes(viemHexToBytes(keyHex.s).bytes) % 10)

\* What getTransaction returns for the submitted transfer: the record the
\* client sealed under its encryption key, that record with a damaged tag,
\* or nothing.
FetchAnswers == {"sealed", "tampered", "none"}

DemoTx(keyHex, answer) ==
  LET t == SealTx(BaseTx(0, FALSE), scalarOfKey(keyHex), Calldata).tx
  IN IF answer = "tampered" THEN [t EXCEPT !.input = FlipTag(t.input)] ELSE t

\* Version 1, step 11: decryptHistoricalTransaction, whose result is logged
\* whatever it is.
DemoHistoricalFirst(result) ==
  IF ~result.returned THEN DemoFailed("ReferenceError")
  ELSE [demo EXCEPT !.decryptedCalldata = result.decryptedCalldata,
                    !.pc = "summary"]

\* Version 2, step 9: fetchTransaction, decryptTransactionInput and the
\* comparison with the original calldata, which throws on a mismatch.
DemoVerifyCalldata(decryptedCalldata) ==
  IF ~decryptedCalldata.ok THEN DemoFailed(decryptedCalldata.err)
  ELSE IF toLowerCase(decryptedCalldata.v.s) # toLowerCase(CalldataText.s)
    THEN DemoFailed("CalldataMismatch")
  ELSE [demo EXCEPT !.decryptedCalldata = decryptedCalldata.v, !.pc = "summary"]

\* The step that decrypts the submitted transaction.
DemoHistorical(answer, now) ==
  /\ demo.pc = "historical"
  /\ demo' =
       IF answer = "none"
         THEN DemoFailed(IF demo.version = 1 THEN "ReferenceError" ELSE "NotFound")
       ELSE IF demo.version = 1
         THEN DemoHistoricalFirst(
                decryptHistoricalTransactionFirst(
                  scalarOfKey(demo.derivedKey1),
                  DemoTx(demo.derivedKey1, answer), Calldata, now))
       ELSE DemoVerifyCalldata(
              decryptTransactionInput(scalarOfKey(demo.derivedKey1),
                                      DemoTx(demo.derivedKey1, answer)))
  /\ UNCHANGED <<txVars, cryptoVars, sideVars>>

\* A line of the summary for a check.
ResultLine(label, passed) ==
  <<IF passed THEN "[PASS]" ELSE "[FAIL]", label>>

\* The summary of version 1: a line for each of the four results, and the
\* closing line on all of them.
SummaryFirst(d) ==
  LET results ==
        <<<<"Signature caching", d.identical>>,
          <<"Deterministic key derivation", d.derivedKey1 = d.derivedKey2>>,
          <<"Encrypt/decrypt roundtrip", d.decrypted = CalldataText>>,
          <<"Shielded transaction", d.receiptStatus = "success">>>>
  IN {ResultLine(results[i][1], results[i][2]) : i \in 1..Len(results)}
       \cup {IF \A i \in 1..Len(results) : results[i][2]
               THEN <<"All checks passed.">>
             ELSE <<"Some checks failed">>}

\* The summary of version 2: five lines and the closing line, as written.
SummarySecond ==
  {<<"[PASS]", "Signature caching">>,
   <<"[PASS]", "Deterministic key derivation">>,
   <<"[PASS]", "Encrypt/decrypt roundtrip">>,
   <<"[PASS]", "Shielded transaction">>,
   <<"[PASS]", "Transaction calldata decryption">>,
   <<"All core checks passed.">>}

\* main prints the summary.
DemoSummary ==
  /\ demo.pc = "summary"
  /\ demo' = [demo EXCEPT !.printed = IF demo.version = 1 THEN SummaryFirst(demo)
                                      ELSE SummarySecond,
                          !.pc = "done"]
  /\ UNCHANGED <<txVars, cryptoVars, sideVars>>

NextDemo ==
  \/ \E status \in ReceiptAnswers : DemoReceipt(status)
  \/ \E finalBalance \in BalanceAnswers : DemoBalance(finalBalance)
  \/ \E answer \in FetchAnswers : \E now \in ClockOptions :
       DemoHistorical(answer, now)
  \/ DemoSummary
  \/ \E r \in SignOutcomes : DemoSignFirst(r)
  \/ \E r \in SignOutcomes : DemoSignSecond(r)
  \/ DemoCheckIdentical
  \/ DemoDeriveKeys
  \/ DemoCreateClient
  \/ \E iv \in IvOptions : DemoRoundtrip(iv)
  \/ \E accepted \in BOOLEAN : DemoSubmit(accepted)

SpecDemo == InitDemo /\ [][NextDemo]_vars

\* ------------------------------------------------------------------------
\* Reading an AAD back (RLP decoding), for the properties below
\* ------------------------------------------------------------------------

RECURSIVE FromBigEndian(_)
FromBigEndian(bs) ==
  IF bs = <<>> THEN 0 ELSE FromBigEndian(SubSeq(bs, 1, Len(bs) - 1)) * 256 + bs[Len(bs)]

\* The payload of an RLP list.
RlpListPayload(bs) ==
  IF bs[1] <= 247 THEN SubSeq(bs, 2, Len(bs))
  ELSE SubSeq(bs, 2 + (bs[1] - 247), Len(bs))

\* The payload length an RLP list header announces.
RlpListLength(bs) ==
  IF bs[1] <= 247 THEN bs[1] - 192
  ELSE FromBigEndian(SubSeq(bs, 2, 1 + (bs[1] - 247)))

RECURSIVE RlpItems(_)
\* The byte strings of a list payload, in order.
RlpItems(p) ==
  IF p = <<>> THEN <<>>
  ELSE IF p[1] < 128 THEN <<<<p[1]>>>> \o RlpItems(Tail(p))
  ELSE IF p[1] <= 183
    THEN <<SubSeq(p, 2, 1 + (p[1] - 128))>> \o RlpItems(SliceFrom(p, 1 + (p[1] - 128)))
  ELSE LET ll == p[1] - 183
           n == FromBigEndian(SubSeq(p, 2, 1 + ll))
       IN <<SubSeq(p, 2 + ll, 1 + ll + n)>> \o RlpItems(SliceFrom(p, 1 + ll + n))

\* The items of the AAD the constructAAD call returned.
AadItems == RlpItems(RlpListPayload(aadOut.res.bytes))

\* The bytes a hex text denotes.
BytesOf(v) == viemHexToBytes(v.s).bytes

\* The position of each metadata field in the list.
FieldIndex ==
  [from |-> 1, chainId |-> 2, nonce |-> 3, to |-> 4, value |-> 5,
   encryptionPubkey |-> 6, encryptionNonce |-> 7, messageVersion |-> 8,
   recentBlockHash |-> 9, expiresAtBlock |-> 10, signedRead |-> 11]

NumericFields == {"chainId", "nonce", "value", "expiresAtBlock"}

MetadataFields == DOMAIN FieldIndex

\* Field f of the fetched record is as the sender sealed it.
AsSealed(f) == tx[f] = sealed.tx[f]

\* The number a numeric form denotes (for the forms of NumericForms).
Denotes(v, k) == v \in NumericForms(k)

\* ------------------------------------------------------------------------
\* Properties of constructAAD
\* ------------------------------------------------------------------------

\* C3 (as claimed): in the AAD constructAAD returns, every integer field
\* (chainId, nonce, value, expiresAtBlock) whose value is zero is the empty
\* byte string, never a single zero byte, and signedRead is the empty string
\* when false and the single byte 0x01 when true.
C3_ZeroIsEmpty ==
  (aadOut.made /\ aadOut.res.ok) =>
    /\ \A f \in NumericFields :
         Denotes(tx[f], 0) => AadItems[FieldIndex[f]] = <<>>
    /\ tx.signedRead = Bool(FALSE) => AadItems[11] = <<>>
    /\ tx.signedRead = Bool(TRUE) => AadItems[11] = <<1>>

\* C4 (as claimed): with the rest of the record as sealed, an absent
\* recipient, an absent or zero ("0x0", "0x00") encryptionNonce and an absent
\* or zero messageVersion each make constructAAD return an AAD whose item for
\* that field is the empty string; the call does not fail.
C4_AbsentIsEmpty ==
  LET absentOrZero == {Undef, Text0x0, Text0x00}
      claimed(g) == IF g = "to" THEN tx.to \in {Null, Undef}
                    ELSE tx[g] \in absentOrZero
  IN aadOut.made =>
       \A f \in {"to", "encryptionNonce", "messageVersion"} :
         (claimed(f) /\ \A h \in MetadataFields \ {f} : AsSealed(h)) =>
           (aadOut.res.ok /\ AadItems[FieldIndex[f]] = <<>>)

\* C5 (as claimed): when the numeric fields of the fetched record denote the
\* numbers that were sealed, in whatever form (number, bigint, decimal text,
\* 0x text), and the other fields are as sealed, constructAAD returns the AAD
\* that was sealed.
C5_RepresentationIndependent ==
  LET sameNumber(g) == \E k \in NumericValues :
                         Denotes(tx[g], k) /\ Denotes(sealed.tx[g], k)
  IN (/\ aadOut.made
      /\ \A f \in NumericFields : sameNumber(f)
      /\ \A f \in MetadataFields \ NumericFields : AsSealed(f))
       => (aadOut.res.ok /\ aadOut.res.bytes = sealed.aad)

\* A byte field of the wrong length, or a required field that is missing.
Malformed ==
  LET wrongLength(g, n) == tx[g].t = "string" /\ Len(BytesOf(tx[g])) # n
  IN \/ wrongLength("from", 20)
     \/ wrongLength("to", 20)
     \/ wrongLength("encryptionPubkey", 33)
     \/ wrongLength("recentBlockHash", 32)
     \/ \E f \in {"from", "chainId", "nonce", "value", "encryptionPubkey",
                  "recentBlockHash", "expiresAtBlock"} : tx[f] = Undef

\* C7 (as claimed): from malformed metadata constructAAD raises an error and
\* produces no AAD, and decryptTransactionInput attempts no decryption.
C7_MalformedRejected ==
  Malformed =>
    /\ aadOut.made => (~aadOut.res.ok /\ aadOut.res.bytes = <<>>)
    /\ call.made => (~call.res.ok /\ call.res.opens = 0)

\* The bytes the public key field denotes once it has its 0x prefix.
PubkeyBytes ==
  IF ~Truthy(tx.encryptionPubkey) THEN <<>>
  ELSE IF startsWith0x(tx.encryptionPubkey.s) THEN BytesOf(tx.encryptionPubkey)
  ELSE BytesOf(Str(Prefix0x \o tx.encryptionPubkey.s))

\* C6: whenever constructAAD serialises a list, the list has exactly 11
\* items and the AAD decodes to 11 items in the fixed order: the sender first,
\* the recipient (empty when absent) fourth, the public key sixth, the block
\* hash ninth, signedRead last, and every integer given as a positive number
\* at its own position (chainId 2, nonce 3, value 5, expiresAtBlock 10), the
\* encryption nonce seventh and the message version eighth.
C6_ElevenFieldsInOrder ==
  (aadOut.made /\ aadOut.res.ok) =>
    /\ Len(aadOut.res.fields) = 11
    /\ RlpListLength(aadOut.res.bytes) = Len(RlpListPayload(aadOut.res.bytes))
    /\ Len(AadItems) = 11
    /\ AadItems[1] = BytesOf(tx.from)
    /\ AadItems[4] = (IF tx.to \in {Null, Undef} THEN <<>> ELSE BytesOf(tx.to))
    /\ AadItems[6] = PubkeyBytes
    /\ AadItems[9] = BytesOf(tx.recentBlockHash)
    /\ AadItems[11] = (IF Truthy(tx.signedRead) THEN <<1>> ELSE <<>>)
    /\ \A f \in NumericFields :
         (tx[f].t \in {"number", "bigint"} /\ tx[f].n > 0) =>
           AadItems[FieldIndex[f]] = BigEndian(tx[f].n)
    /\ tx.encryptionNonce.t = "string" /\ Len(tx.encryptionNonce.s) > 4 =>
         AadItems[7] = BytesOf(tx.encryptionNonce)
    /\ tx.messageVersion = Text0x01 => AadItems[8] = <<1>>

\* C6 witness: an AAD was built from a record without recipient.
C6_Witness ==
  aadOut.made /\ aadOut.res.ok /\ tx.to = Null /\ Len(AadItems) = 11

\* ------------------------------------------------------------------------
\* Properties of decryptTransactionInput
\* ------------------------------------------------------------------------

\* The key, the AAD and the nonce a decryptTransactionInput(sk, tx) call opens
\* with, and whether all four inputs of the open are the sealed ones.
OpenKey == generateAesKey(sk, NETWORK_TEE_PUBLIC_KEY)

OpenAad == constructAAD(tx)

OpenNonce == RlpField(tx.encryptionNonce)

OpenReached == OpenAad.ok /\ OpenNonce.ok

AllAsSealed ==
  /\ OpenReached
  /\ OpenKey = sealed.key
  /\ OpenNonce.bytes = sealed.nonce
  /\ OpenAad.bytes = sealed.aad
  /\ tx.input = sealed.ciphertext

\* C1: decryptTransactionInput returns a value only when key, nonce, AAD and
\* ciphertext are all the sealed ones, and the value is then the sealed
\* plaintext; when the open is reached and any of the four differs (another
\* encryption secret included), the call raises the authentication error and
\* returns nothing.
C1_FailClosed ==
  call.made =>
    /\ call.res.ok =>
         (AllAsSealed /\ call.res.v = Str(bytesToHex(sealed.plaintext)))
    /\ (OpenReached /\ ~AllAsSealed) =>
         (~call.res.ok /\ call.res.err = "AuthenticationError"
            /\ call.res.v = Undef)
    /\ (OpenReached /\ sk # sealed.sk) => call.res.err = "AuthenticationError"

\* C1 witness: a call on a record whose ciphertext was altered ended in the
\* authentication error.
C1_Witness ==
  /\ call.made
  /\ tx.input # sealed.ciphertext
  /\ \A f \in MetadataFields : AsSealed(f)
  /\ sk = sealed.sk
  /\ call.res.err = "AuthenticationError"

\* ------------------------------------------------------------------------
\* Properties of decryptHistoricalTransaction
\* ------------------------------------------------------------------------

\* C8: a call of a transaction decryptor performs at most one AEAD open, and
\* a failed open reaches the caller as the authentication error: the call
\* does not return a normal result after an open has failed.
C8_NoRetries ==
  /\ call.made => call.res.opens <= 1
  /\ hist.made =>
       /\ Len(hist.res.attempts) <= 1
       /\ (\E i \in 1..Len(hist.res.attempts) : ~hist.res.attempts[i].out.ok)
            => ~hist.res.returned

\* C10: no AES key derived from the encryption secret has been put into the
\* body of a request to the node.
C10_KeyMaterialLocal ==
  hist.made => hist.res.rpcKeys = {}

\* ------------------------------------------------------------------------
\* Properties of encrypt / decrypt / verifyRoundtrip
\* ------------------------------------------------------------------------

\* Hex text as the Hex type takes it: 0x, then an even number of hex digits.
WellFormedHex(v) ==
  /\ v.t = "string"
  /\ startsWith0x(v.s)
  /\ AllHex(SliceFrom(v.s, 2))
  /\ Len(v.s) % 2 = 0

Is32ByteKey(keyHex) == Len(hexToBytes(keyHex.s)) = 32

\* C2: with a 32-byte key, decrypting what encrypt returned gives back exactly
\* the plaintext handed to encrypt, and verifyRoundtrip returns true for every
\* well-formed hex plaintext.
C2_Roundtrip ==
  /\ (opened.made /\ opened.key = payload.key /\ Is32ByteKey(payload.key)
        /\ WellFormedHex(payload.plaintext)) =>
       opened.res = Ok(payload.plaintext)
  /\ (verdict.made /\ Is32ByteKey(verdict.key) /\ WellFormedHex(verdict.original)) =>
       verdict.res = Ok(Bool(TRUE))

\* ------------------------------------------------------------------------
\* Properties of the demo
\* ------------------------------------------------------------------------

\* C9: a run of the demo that has created a Seismic client with a derived
\* key, encrypted with one or submitted the transfer got the same fullSig from
\* both signing requests; a run whose signatures differ has stopped with an
\* error once main has looked at the comparison.
C9_ValidatedBeforeUse ==
  /\ (demo.clientKeys # {} \/ demo.encryptKeys # {} \/ demo.submitted) =>
       demo.first = demo.second
  /\ (demo.pc \notin {"idle", "sign1", "sign2", "checked"}
        /\ demo.first # demo.second) => demo.pc = "failed"

C12_SealingPure ==
  (payload.made /\ second.made) => second.res = payload.res

\* The two records hold the same metadata (they may differ in their input).
SameMetadata(a, b) == \A f \in MetadataFields : a[f] = b[f]

\* The calls that have built their AAD.
BuiltAad == {i \in CallIds : calls[i].pc \in {"decrypting", "done"}}

\* C13: constructAAD is a function of the metadata alone. Whenever it is
\* called on the record (on its own, or inside a decryptTransactionInput call,
\* before or after any other operation) it returns the same bytes, and for
\* metadata identical to the sender's these are the bytes the sender
\* authenticated, whatever the record's input is.
C13_AadDeterministic ==
  /\ \A i \in BuiltAad : aadOut.made => calls[i].aad = aadOut.res
  /\ \A i, j \in BuiltAad : calls[i].aad = calls[j].aad
  /\ (aadOut.made /\ SameMetadata(tx, sealed.tx))
       => (aadOut.res.ok /\ aadOut.res.bytes = sealed.aad)
  /\ \A i \in BuiltAad :
       SameMetadata(tx, sealed.tx)
         => (calls[i].aad.ok /\ calls[i].aad.bytes = sealed.aad)

\* constructAAD ran on its own between two calls that built theirs, on a
\* record with the sender's metadata and an input that is not the sender's.
C13_Witness ==
  /\ aadOut.made
  /\ calls[1].pc = "done" /\ calls[2].pc = "decrypting"
  /\ calls[2].version = 2
  /\ SameMetadata(tx, sealed.tx)
  /\ tx.input # sealed.tx.input
  /\ aadOut.res.ok /\ Len(aadOut.res.bytes) > 0

\* How many bytes the RLP encoding of a byte string takes.
ItemSpan(item) ==
  IF Len(item) = 1 /\ item[1] < 128 THEN 1
  ELSE IF Len(item) <= 55 THEN 1 + Len(item)
  ELSE 1 + Len(BigEndian(Len(item))) + Len(item)

\* The bytes of an encoded list before the item at position k, with or
\* without the list header.
BytesBefore(bs, items, k, withHeader) ==
  SubSeq(IF withHeader THEN bs ELSE RlpListPayload(bs), 1,
         (IF withHeader THEN Len(bs) - Len(RlpListPayload(bs)) ELSE 0)
           + SumBytes([i \in 1..(k - 1) |-> ItemSpan(items[i])]))

\* The bytes of an encoded list after the item at position k.
BytesAfter(bs, items, k) ==
  SubSeq(bs, Len(bs) - SumBytes([i \in 1..(Len(items) - k) |->
                                   ItemSpan(items[k + i])]) + 1,
         Len(bs))

\* The fetched record differs from the sealed one in its nonce and nowhere
\* else in the metadata, and an AAD was built from it.
OnlyNonceDiffers ==
  /\ aadOut.made /\ aadOut.res.ok
  /\ tx.nonce # sealed.tx.nonce
  /\ \A f \in MetadataFields \ {"nonce"} : AsSealed(f)

\* C14 as stated: the AAD of the record and the AAD of the sealed record are
\* the same in every byte before the nonce item and in every byte after it.
C14_NonceLocalBytes ==
  OnlyNonceDiffers =>
    /\ BytesBefore(aadOut.res.bytes, AadItems, 3, TRUE)
         = BytesBefore(sealed.aad, RlpItems(RlpListPayload(sealed.aad)), 3, TRUE)
    /\ BytesAfter(aadOut.res.bytes, AadItems, 3)
         = BytesAfter(sealed.aad, RlpItems(RlpListPayload(sealed.aad)), 3)

\* C14 amended: the two AADs are the same in the encoded items before the
\* nonce item and in every byte after it; the list header in front holds
\* the length of what follows and so changes with the length of the nonce item.
C14_NonceLocalItems ==
  OnlyNonceDiffers =>
    /\ BytesBefore(aadOut.res.bytes, AadItems, 3, FALSE)
         = BytesBefore(sealed.aad, RlpItems(RlpListPayload(sealed.aad)), 3, FALSE)
    /\ BytesAfter(aadOut.res.bytes, AadItems, 3)
         = BytesAfter(sealed.aad, RlpItems(RlpListPayload(sealed.aad)), 3)
    /\ RlpListLength(aadOut.res.bytes) = Len(RlpListPayload(aadOut.res.bytes))
    /\ Len(AadItems) = Len(RlpItems(RlpListPayload(sealed.aad)))

\* An AAD was built from a record whose nonce item is longer than the sealed
\* one, so that the two AADs differ in length.
C14_Witness ==
  /\ OnlyNonceDiffers
  /\ tx.nonce = Num(LongNonce)
  /\ AadItems[3] = <<LongNonce>>
  /\ Len(aadOut.res.bytes) = Len(sealed.aad) + 1

\* The text is 0x and an even number of hex digits.
WellFormedSig(fullSig) ==
  /\ startsWith0x(fullSig)
  /\ AllHex(SliceFrom(fullSig, 2))
  /\ Len(fullSig) % 2 = 0

\* The bytes a well-formed signature text denotes.
SigBytes(fullSig) == PairsToBytes(SliceFrom(fullSig, 2))

\* C15: two deriveKeyFromSignature calls on signatures that denote the same
\* bytes return the same key, of 32 bytes, in either version of the function;
\* two generateAesKey calls on the same (secret, network public key) pair
\* return the same key, whatever was derived in between.
C15_DerivationDeterministic ==
  /\ \A i, j \in 1..Len(keys.sig) :
       ( /\ WellFormedSig(keys.sig[i].fullSig) /\ WellFormedSig(keys.sig[j].fullSig)
         /\ SigBytes(keys.sig[i].fullSig) = SigBytes(keys.sig[j].fullSig) )
       => /\ keys.sig[i].res.ok
          /\ keys.sig[i].res = keys.sig[j].res
          /\ Is32ByteKey(keys.sig[i].res.v)
  /\ \A i, j \in 1..Len(keys.aes) :
       ( /\ keys.aes[i].privateKey = keys.aes[j].privateKey
         /\ keys.aes[i].networkPublicKey = keys.aes[j].networkPublicKey )
       => keys.aes[i].key = keys.aes[j].key

\* The two versions derived the same key from two texts of the same
\* signature bytes, and the same AES key was derived twice with another
\* derivation possible in between.
C15_Witness ==
  /\ Len(keys.sig) = 2 /\ Len(keys.aes) = 2
  /\ keys.sig[1].version = 1 /\ keys.sig[2].version = 2
  /\ keys.sig[1].fullSig # keys.sig[2].fullSig
  /\ WellFormedSig(keys.sig[1].fullSig) /\ WellFormedSig(keys.sig[2].fullSig)
  /\ SigBytes(keys.sig[1].fullSig) = SigBytes(keys.sig[2].fullSig)
  /\ keys.sig[1].res = keys.sig[2].res
  /\ keys.aes[1] = keys.aes[2]

\* C16: deriveKeyFromSignature raises an error for a fullSig that is not
\* valid hex text (a character that is no hex digit, or an odd number of
\* digits) and returns no key for it.
C16_MalformedSigRejected ==
  \A i \in 1..Len(keys.sig) :
    (keys.sig[i].fullSig # <<>> /\ ~WellFormedSig(keys.sig[i].fullSig))
      => ~keys.sig[i].res.ok

\* C17: every request signRawMessage has created carries a content of 64 hex
\* digits; for any other message the call failed before createTransaction.
C17_OnlyHashesSigned ==
  /\ \A content \in signer.requests : Len(content) = 64 /\ AllHex(content)
  /\ (signer.entry = "signRawMessage"
        /\ ~(Len(contentOf(signer.messageHex)) = 64
               /\ AllHex(contentOf(signer.messageHex))))
       => (signer.pc = "failed" /\ signer.requests = {})

\* C18: a historical decryption reports success only when it decrypted
\* calldata that is the original calldata it was given for comparison.
C18_SuccessMeansMatch ==
  (hist.made /\ hist.res.success) =>
    /\ hist.res.decryptedCalldata.t = "string"
    /\ toLowerCase(hist.res.decryptedCalldata.s)
         = toLowerCase(bytesToHex(hist.original))

\* C19: the summary is sound. A run prints "[PASS] Signature caching" only
\* when the two signatures are identical, "[PASS] Deterministic key
\* derivation" only when the two derived keys are equal, "[PASS]
\* Encrypt/decrypt roundtrip" only when decrypt returned the calldata,
\* "[PASS] Shielded transaction" only when the receipt's status is success,
\* and the closing "All checks passed." / "All core checks passed." only when
\* all four hold.
C19_SummarySound ==
  LET signaturesIdentical == demo.first = demo.second
      keysEqual == demo.derivedKey1 = demo.derivedKey2
      roundtrip == /\ demo.decrypted # Undef
                   /\ toLowerCase(demo.decrypted.s) = toLowerCase(CalldataText.s)
      receiptSuccess == demo.receiptStatus = "success"
  IN /\ <<"[PASS]", "Signature caching">> \in demo.printed => signaturesIdentical
     /\ <<"[PASS]", "Deterministic key derivation">> \in demo.printed => keysEqual
     /\ <<"[PASS]", "Encrypt/decrypt roundtrip">> \in demo.printed => roundtrip
     /\ <<"[PASS]", "Shielded transaction">> \in demo.printed => receiptSuccess
     /\ (demo.printed \cap {<<"All checks passed.">>, <<"All core checks passed.">>}) # {}
          => (signaturesIdentical /\ keysEqual /\ roundtrip /\ receiptSuccess)

\* C20: a run that has gone past the step that reads the final balance, or
\* has printed its summary, read a final balance that is the initial balance
\* less the transfer amount.
C20_BalanceVerified ==
  demo.pc \in {"historical", "summary", "done"} =>
    initialBalance - demo.finalBalance = DEMO_AMOUNT

\* C21: pollTransaction returns a transaction only when the status of its
\* last poll is COMPLETED, and signRawMessage reads signedMessages of such a
\* transaction only.
C21_OnlyCompletedReturned ==
  (signer.pollEnd = "returned" \/ signer.pc \in {"completed", "returned"}) =>
    (signer.lastStatus = "COMPLETED" /\ signer.polls >= 1)

C21_Witness ==
  signer.pollEnd = "returned" /\ signer.polls >= 2

\* How a finished pollTransaction call ended agrees with what it polled.
PollEndAgrees ==
  /\ signer.polls <= signer.maxAttempts
  /\ signer.pollEnd = "returned" => signer.lastStatus = "COMPLETED"
  /\ signer.pollEnd = "terminal" =>
       signer.lastStatus \in TERMINAL_STATUSES \ {"COMPLETED"}
  /\ signer.pollEnd = "notfound" => signer.lastStatus = "none"
  /\ signer.pollEnd = "timeout" =>
       /\ signer.polls = signer.maxAttempts
       /\ ~signer.sawTerminal
       /\ signer.lastStatus \notin TERMINAL_STATUSES
       /\ signer.polls > 0 => signer.lastStatus # "none"

\* C22: pollTransaction terminates. It never makes more than maxAttempts
\* getTransaction calls; a call that is polling ends; it ends as the return
\* of a COMPLETED transaction, a terminal-status error, a not-found error, or
\* a timeout after exactly maxAttempts polls that all saw a status that is
\* not terminal (none at all when maxAttempts is 0); and a call that has
\* ended polls no more and keeps its ending.
C22_PollTerminates ==
  /\ []PollEndAgrees
  /\ (signer.pc = "polling") ~> (signer.pollEnd # "none")
  /\ [][signer.pollEnd # "none" =>
          (signer'.polls = signer.polls /\ signer'.pollEnd = signer.pollEnd)]_vars

C22_Witness ==
  signer.pollEnd = "timeout" /\ signer.polls = 2 /\ signer.maxAttempts = 2

\* C23: a poll that observes FAILED, REJECTED, BLOCKED or CANCELLED, or no
\* transaction, raises the error at that poll: the call has failed, it slept
\* only after the polls before this one, and nothing of the call changes
\* afterwards.
C23_TerminalRaisesAtOnce ==
  /\ []((signer.polls > 0
           /\ signer.lastStatus \in (TERMINAL_STATUSES \ {"COMPLETED"}) \cup {"none"})
         => (/\ signer.pc = "failed"
             /\ signer.pollEnd \in {"terminal", "notfound"}
             /\ signer.sleeps = signer.polls - 1))
  /\ [][signer.pollEnd \in {"terminal", "notfound"} => signer' = signer]_vars

C23_Witness ==
  signer.pollEnd = "terminal" /\ signer.polls >= 2 /\ signer.lastStatus = "REJECTED"

\* C24: signRawMessage validates, creates, polls, extracts. It calls
\* createTransaction at most once, and once when it has got past the
\* validation; it polls only after createTransaction returned an id; it
\* returns a result only when polling ended with COMPLETED and the
\* transaction carries a signed message; a call that threw returned no
\* signature.
C24_SigningOrder ==
  signer.entry = "signRawMessage" =>
    /\ signer.creates <= 1
    /\ signer.pc \in {"creating", "polling", "completed", "returned"} =>
         signer.creates = 1
    /\ (signer.pc = "polling" \/ signer.polls > 0) =>
         (signer.hasId /\ signer.creates = 1)
    /\ signer.pc = "returned" =>
         /\ signer.pollEnd = "returned"
         /\ signer.lastStatus = "COMPLETED"
         /\ signer.signedCount >= 1
    /\ signer.pc = "failed" => signer.fullSig = <<>>

C24_Witness ==
  /\ signer.entry = "signRawMessage" /\ signer.pc = "returned"
  /\ signer.polls >= 2 /\ signer.fullSig # <<>>

\* The positions of the call's events at which the n-th signRawMessage
\* created its request, and at which it ended.
CreatedAt(n) == {i \in 1..Len(caching.log) : caching.log[i] = <<"create", n>>}

SettledAt(n) ==
  {i \in 1..Len(caching.log) :
     Len(caching.log[i]) = 4 /\ caching.log[i][1] = "settled"
       /\ caching.log[i][2] = n}

\* C25: validateSignatureCaching issues its requests one after the other.
\* The second createTransaction comes after the first signRawMessage has
\* returned from a COMPLETED poll; when the first signRawMessage throws, no
\* second request is created and no comparison result is returned.
C25_RequestsInSequence ==
  /\ \A i \in CreatedAt(2) :
       \E j \in SettledAt(1) :
         /\ j < i
         /\ caching.log[j][3] = "returned"
         /\ caching.log[j][4] = "COMPLETED"
  /\ (\E j \in SettledAt(1) : caching.log[j][3] = "failed") =>
       /\ CreatedAt(2) = {}
       /\ caching.pc = "failed"
       /\ ~caching.returned

C25_Witness ==
  caching.pc = "done" /\ CreatedAt(2) # {} /\ ~caching.identical

\* C26: when validateSignatureCaching reports identical = true, both fullSig
\* are signatures that are not empty; and a demo run that has derived its
\* keys derived them from signatures that are not empty.
C26_IdenticalMeansSigned ==
  /\ (caching.returned /\ caching.identical) =>
       (caching.first # <<>> /\ caching.second # <<>>)
  /\ demo.pc \in {"client", "roundtrip", "submit", "submitted", "balance",
                   "historical", "summary", "done"} =>
       (demo.first # <<>> /\ demo.second # <<>>)

RECURSIVE SumOf(_, _)
\* The sum of f over the accounts of S.
SumOf(f, S) ==
  IF S = {} THEN 0
  ELSE LET a == CHOOSE x \in S : TRUE IN f[a] + SumOf(f, S \ {a})

\* C27: after any sequence of mint, burn, transfer, transferFrom and approve
\* calls, reverted or not, the balances add up to totalSupply and no balance
\* exceeds totalSupply.
C27_SupplyConserved ==
  /\ SumOf(token.balance, Accounts) = token.totalSupply
  /\ \A a \in Accounts : token.balance[a] <= token.totalSupply

C27_Witness ==
  /\ token.totalSupply = MaxUint
  /\ \A a \in Accounts : token.balance[a] > 0
  /\ token.last.op = "transferFrom" /\ ~token.last.reverted

====
